---- MODULE Spec2Model ----
(***************************************************************************)
(* The file-based collaboration core of kyros-dashboard: the task, lease   *)
(* and agent collections kept in JSON files and written with an ETag       *)
(* check (mcp/kyros_collab_server.py, the service front-end "srv", and     *)
(* scripts/collab_cli.py, the command-line front-end "cli"), and the       *)
(* append-only event journal.                                              *)
(*                                                                         *)
(* Every agent is an OS process.  A handler runs as a sequence of file     *)
(* system calls; each call is one step of the process, so that the steps   *)
(* of several processes interleave as the operating system allows:         *)
(*    begin   read the collection, compute the new content (or fail)       *)
(*    check   write_json_atomic: re-read the file and compare the ETag     *)
(*    tmp     write_json_atomic: open the temporary file                   *)
(*    write   write_json_atomic: write the temporary file                  *)
(*    replace write_json_atomic: os.replace(tmp, path)                     *)
(*    reread  write_json_atomic: read the file again for the new ETag      *)
(*    emit    emit_event: append one line to the journal                   *)
(*    done    the handler has returned or raised; the caller takes the     *)
(*            outcome and the process is idle again                        *)
(***************************************************************************)
EXTENDS Integers, Sequences, FiniteSets, TLC

VARIABLES
    files,     \* collection path -> the file at that path
    tmp,       \* collection path -> the service's temporary file .<name>.tmp
    journal,   \* events.jsonl: the sequence of appended events
    now,       \* the wall clock, in ticks of 1/TicksPerSecond second
    uuid,      \* number of uuid4 values drawn so far
    pc,        \* process -> its position in the handler it runs
    req,       \* process -> the call it runs or ran last, with its parameters
    wr,        \* process -> the write_json_atomic call in progress
    res,       \* process -> outcome of its last call
    nops,      \* number of calls that reached write_json_atomic or, for a
               \* direct emit_event call, emit_event
    nticks,    \* number of clock advances
    limits,    \* the run's setting: [ops, ticks], the most nops and nticks,
               \* and schema, collection -> the schema file in place
    pruned,    \* history: the (lock_id, owner) pairs of the leases that
               \* acquire calls dropped as stale and whose write was installed
    completed  \* history: process -> the events of the calls it completed,
               \* in the order in which it completed them

vars == <<files, tmp, journal, now, uuid, pc, req, wr, res, nops, nticks, limits, pruned, completed>>

----------------------------------------------------------------------------
(* Bounds of the model *)

MaxOps == 3          \* calls that reach write_json_atomic in one run
MaxTasks == 2        \* tasks a create may find already stored
MaxTicks == 1        \* clock advances in one run

Procs == {"p1", "p2"}
FrontEnds == {"srv", "cli"}
Paths == {"tasks", "locks", "agents"}

None == "None"       \* Python's None, and a parameter that was not passed

----------------------------------------------------------------------------
(* Task lifecycle tables *)

ALLOWED_STATUSES ==
    << "queued", "claimed", "in_progress", "review", "changes_requested",
       "approved", "merging", "done", "blocked", "failed", "abandoned" >>

ALLOWED_TRANSITIONS ==
    [ queued            |-> <<"claimed", "in_progress", "abandoned">>,
      claimed           |-> <<"in_progress", "blocked", "abandoned">>,
      in_progress       |-> <<"review", "blocked", "failed">>,
      review            |-> <<"approved", "changes_requested", "failed">>,
      changes_requested |-> <<"in_progress", "failed">>,
      approved          |-> <<"merging">>,
      merging           |-> <<"done", "failed">>,
      blocked           |-> <<"in_progress", "abandoned">>,
      failed            |-> <<"in_progress", "abandoned">>,
      abandoned         |-> <<>>,
      done              |-> <<>> ]

Range(s) == { s[i] : i \in DOMAIN s }

\* `x in list`
In(x, list) == \E i \in DOMAIN list : list[i] = x

\* ALLOWED_TRANSITIONS.get(old_status, [])
allowed_next(old_status) ==
    IF old_status \in DOMAIN ALLOWED_TRANSITIONS
    THEN ALLOWED_TRANSITIONS[old_status] ELSE <<>>

----------------------------------------------------------------------------
(* Files, serialisation and ETags *)

EmptyBytes == <<>>

\* json.dumps(data, indent=2) + "\n": the bytes of a document.  The bytes are
\* never empty and determine the document.
json_dumps(data) == <<data>>

\* json.loads(raw.decode())
json_loads(raw) == raw[1]

\* hashlib.sha256(data).hexdigest(), taken as collision free
sha256_hex(raw) == [sha256 |-> raw]

\* Bytes that are not one writer's output: what a file holds when a second
\* writer's shorter output overlays a first writer's.
Garbled == <<[garbled |-> TRUE]>>

\* json.loads accepts the bytes: a file opened for writing and not yet
\* written holds no bytes, and json.loads("") raises JSONDecodeError.
Parses(raw) == raw # EmptyBytes /\ raw # Garbled

NoFile == [exists |-> FALSE, raw |-> EmptyBytes]

FileOf(raw) == [exists |-> TRUE, raw |-> raw]

\* What data.get("version", 1) and data.get(<collection>, []) give on the
\* document of a missing file ({"version": 1} in srv, {} in cli).
EmptyDoc == [version |-> 1, items |-> <<>>]

\* read_json_with_etag(path) on the file f; ok is FALSE when json.loads
\* raises, and the call of the reader ends with that exception.
read_file(f) ==
    IF ~f.exists
    THEN [ok |-> TRUE, data |-> EmptyDoc, etag |-> sha256_hex(EmptyBytes)]
    ELSE IF ~Parses(f.raw)
    THEN [ok |-> FALSE, data |-> EmptyDoc, etag |-> sha256_hex(f.raw)]
    ELSE [ok |-> TRUE, data |-> json_loads(f.raw), etag |-> sha256_hex(f.raw)]

read_json_with_etag(path) == read_file(files[path])

----------------------------------------------------------------------------
(* Clock and identifiers *)

TicksPerSecond == 2

\* now_iso() / utcnow_iso(): strftime("%Y-%m-%dT%H:%M:%SZ") drops the
\* fraction of the second; a timestamp is the whole number of seconds.
now_iso == now \div TicksPerSecond

Digit(d) == << "0", "1", "2", "3", "4", "5", "6", "7", "8", "9" >>[d + 1]

\* f"task-{n:03d}" for n < 1000
TaskId(n) ==
    "task-" \o Digit((n \div 100) % 10) \o Digit((n \div 10) % 10) \o Digit(n % 10)

----------------------------------------------------------------------------
(* Process bookkeeping *)

NoReq == [op |-> "none"]
NoWrite == [path |-> "none"]
NoRes == [outcome |-> "none"]

\* The call of p ends here with `outcome` and without (further) effect.
Fail(p, outcome) ==
    /\ pc' = [pc EXCEPT ![p] = "done"]
    /\ wr' = [wr EXCEPT ![p] = NoWrite]
    /\ res' = [res EXCEPT ![p] = [outcome |-> outcome]]

\* A handler that, instead of raising Conflict, waits for the lease to go
Raise_Waiting(p, outcome) ==
    /\ pc' = [pc EXCEPT ![p] = IF outcome = "Conflict" THEN "wait" ELSE "done"]
    /\ wr' = [wr EXCEPT ![p] = NoWrite]
    /\ res' = [res EXCEPT ![p] =
                 [outcome |-> IF outcome = "Conflict" THEN "pending" ELSE outcome]]
    /\ UNCHANGED nops

\* The handler of p raises before it writes anything.
Raise(p, outcome) ==
    /\ Fail(p, outcome)
    /\ UNCHANGED nops

\* _load_schema(kind): None when collaboration/schema/<kind>.schema.json is
\* absent, as it is in the repository; a schema is given here by what it
\* demands of a document: the number of its items, the statuses its items
\* may have, and whether a task may carry external ids.
NoSchema == [enabled |-> FALSE]

\* jsonschema.validate(instance=data, schema=schema) does not raise
Conforms(data, schema) ==
    /\ Len(data.items) >= schema.minItems
    /\ Len(data.items) <= schema.maxItems
    /\ \A i \in DOMAIN data.items :
          /\ "status" \in DOMAIN data.items[i] =>
                data.items[i].status \in schema.statuses
          /\ "external_ids" \in DOMAIN data.items[i] =>
                schema.links \/ data.items[i].external_ids = <<>>

\* A _validate that lets every document through
validate_Never(kind, data) == TRUE

\* _validate(kind, data) returns: there is no schema, or the document
\* conforms to it; otherwise it raises.
validate(kind, data) ==
    ~limits.schema[kind].enabled \/ Conforms(data, limits.schema[kind])

\* The handler of p calls _validate (srv) and then
\* write_json_atomic(path, data, expected_etag=etag), and will then emit
\* `event` and return `ret`.
CallWrite(p, path, data, etag, event, ret) ==
    IF req'[p].fe = "srv" /\ ~validate(path, data)
    THEN Raise(p, "ValidationError")
    ELSE /\ nops < limits.ops
         /\ nops' = nops + 1
         /\ pc' = [pc EXCEPT ![p] = "check"]
         /\ wr' = [wr EXCEPT ![p] =
                     [path |-> path, data |-> data, expected_etag |-> etag,
                      event |-> event, ret |-> ret]]
         /\ res' = [res EXCEPT ![p] = [outcome |-> "pending"]]

\* p starts the call r.
Start(p, r) ==
    /\ pc[p] = "idle"
    /\ req' = [req EXCEPT ![p] = r]

----------------------------------------------------------------------------
(* write_json_atomic, step by step *)

\* A write that installs its document and only then reports the mismatch
WriteCheck_AfterWrite(p) ==
    /\ pc[p] = "check"
    /\ LET cur == read_json_with_etag(wr[p].path)
           cur_etag == cur.etag
       IN  IF ~cur.ok THEN Fail(p, "JSONDecodeError") /\ UNCHANGED files
           ELSE IF wr[p].expected_etag # cur_etag
           THEN /\ Fail(p, "Conflict")
                /\ files' = [files EXCEPT
                               ![wr[p].path] = FileOf(json_dumps(wr[p].data))]
           ELSE /\ pc' = [pc EXCEPT ![p] = "tmp"]
                /\ wr' = [wr EXCEPT ![p] =
                            [q \in DOMAIN wr[p] \cup {"prev_etag"} |->
                               IF q = "prev_etag" THEN cur_etag ELSE wr[p][q]]]
                /\ UNCHANGED <<res, files>>
    /\ UNCHANGED <<tmp, journal, now, uuid, req, nops, nticks, limits, pruned, completed>>

\* cur_etag = read_json_with_etag(path)[1]; raise on a mismatch
WriteCheck(p) ==
    /\ pc[p] = "check"
    /\ LET cur == read_json_with_etag(wr[p].path)
           cur_etag == cur.etag
       IN  IF ~cur.ok THEN Fail(p, "JSONDecodeError")
           ELSE IF wr[p].expected_etag # cur_etag
           THEN Fail(p, "Conflict")
           ELSE /\ pc' = [pc EXCEPT ![p] = "tmp"]
                /\ wr' = [wr EXCEPT ![p] =
                            [q \in DOMAIN wr[p] \cup {"prev_etag"} |->
                               IF q = "prev_etag" THEN cur_etag ELSE wr[p][q]]]
                /\ UNCHANGED res
    /\ UNCHANGED <<files, tmp, journal, now, uuid, req, nops, nticks, limits, pruned, completed>>

\* tmp.write_text(json.dumps(data) + "\n") opens the temporary file, which
\* truncates it, and then writes.  The service names the file .<name>.tmp,
\* one name for all its processes, so that its open and its write are steps
\* other processes see; fd tells where the file it opened is now: still at
\* the temporary name ("tmp"), moved to the collection path by another
\* process's os.replace ("path"), or unlinked ("gone").
OpenTmp(p) ==
    /\ pc[p] = "tmp"
    /\ req[p].fe = "srv"
    /\ pc' = [pc EXCEPT ![p] = "write"]
    /\ tmp' = [tmp EXCEPT ![wr[p].path] = FileOf(EmptyBytes)]
    /\ wr' = [wr EXCEPT ![p] =
                [q \in DOMAIN wr[p] \cup {"fd"} |->
                   IF q = "fd" THEN "tmp" ELSE wr[p][q]]]
    /\ UNCHANGED <<files, journal, now, uuid, req, res, nops, nticks, limits, pruned, completed>>

\* What a file holding old holds after mine is written from its start: mine,
\* unless bytes of a longer earlier output stay behind it.
Overlay(old, mine) == IF old = EmptyBytes THEN {mine} ELSE {mine, Garbled}

\* The write of write_text.  The command line tool names its temporary file
\* .<name>.tmp-<uuid4>, a name of its own: no other process sees that file.
WriteTmp(p) ==
    /\ \/ /\ pc[p] = "tmp"
          /\ req[p].fe = "cli"
          /\ UNCHANGED <<files, tmp>>
       \/ /\ pc[p] = "write"
          /\ LET path == wr[p].path
                 mine == json_dumps(wr[p].data)
             IN  CASE wr[p].fd = "tmp" ->
                        /\ \E raw \in Overlay(tmp[path].raw, mine) :
                              tmp' = [tmp EXCEPT ![path] = FileOf(raw)]
                        /\ UNCHANGED files
                   [] wr[p].fd = "path" ->
                        /\ \E raw \in Overlay(files[path].raw, mine) :
                              files' = [files EXCEPT ![path] = FileOf(raw)]
                        /\ UNCHANGED tmp
                   [] OTHER -> UNCHANGED <<files, tmp>>
    /\ pc' = [pc EXCEPT ![p] = "replace"]
    /\ UNCHANGED <<journal, now, uuid, req, wr, res, nops, nticks, limits, pruned, completed>>

\* The content os.replace(tmp, path) moves to path, NoFile when the temporary
\* file is gone (FileNotFoundError).
TmpOf(p) ==
    IF req[p].fe = "srv" THEN tmp[wr[p].path] ELSE FileOf(json_dumps(wr[p].data))

\* Where a file another process has open is after os.replace by a process
\* of the front end fe: the file at the path is unlinked, and the service's
\* shared temporary file is now the file at the path.
Moved(fd, fe) ==
    IF fd = "path" THEN "gone"
    ELSE IF fd = "tmp" /\ fe = "srv" THEN "path"
    ELSE fd

\* The (lock_id, owner) pairs of the leases an acquire call read and left
\* out of the list it writes: the leases it dropped as stale.  The ETag a
\* call passes on stands for the bytes it read.
Dropped(p) ==
    IF req[p].op # "acquire_lease" THEN {}
    ELSE LET seen == read_file(IF wr[p].expected_etag.sha256 = EmptyBytes
                               THEN NoFile
                               ELSE FileOf(wr[p].expected_etag.sha256)).data.items
             kept == wr[p].data.items
         IN  { <<seen[i].lock_id, seen[i].owner>> : i \in DOMAIN seen }
               \ { <<kept[i].lock_id, kept[i].owner>> : i \in DOMAIN kept }

\* os.replace(tmp, path); installed keeps the bytes it moved to the path
Replace(p) ==
    /\ pc[p] = "replace"
    /\ IF ~TmpOf(p).exists
       THEN /\ Fail(p, "IOError")
            /\ UNCHANGED <<files, tmp, pruned>>
       ELSE /\ files' = [files EXCEPT ![wr[p].path] = TmpOf(p)]
            /\ tmp' = IF req[p].fe = "srv"
                      THEN [tmp EXCEPT ![wr[p].path] = NoFile] ELSE tmp
            /\ pc' = [pc EXCEPT ![p] = "reread"]
            /\ wr' = [q \in Procs |->
                        IF q # p /\ pc[q] = "write" /\ wr[q].path = wr[p].path
                        THEN [wr[q] EXCEPT !.fd = Moved(@, req[p].fe)]
                        ELSE IF q = p
                        THEN [k \in DOMAIN wr[p] \cup {"installed"} |->
                                IF k = "installed" THEN TmpOf(p).raw
                                ELSE wr[p][k]]
                        ELSE wr[q]]
            /\ pruned' = IF TmpOf(p).raw = json_dumps(wr[p].data)
                         THEN pruned \cup Dropped(p) ELSE pruned
            /\ UNCHANGED res
    /\ UNCHANGED <<journal, now, uuid, req, nops, nticks, limits, completed>>

\* A write that returns the ETag it found before it wrote
ReRead_Previous(p) ==
    /\ pc[p] = "reread"
    /\ IF ~read_json_with_etag(wr[p].path).ok
       THEN Fail(p, "JSONDecodeError")
       ELSE /\ pc' = [pc EXCEPT ![p] = "emit"]
            /\ wr' = [wr EXCEPT ![p] =
                        [q \in DOMAIN wr[p] \cup {"new_etag"} |->
                           IF q = "new_etag" THEN wr[p].prev_etag
                           ELSE wr[p][q]]]
            /\ UNCHANGED res
    /\ UNCHANGED <<files, tmp, journal, now, uuid, req, nops, nticks, limits, pruned, completed>>

\* new, new_etag = read_json_with_etag(path)
ReRead(p) ==
    /\ pc[p] = "reread"
    /\ IF ~read_json_with_etag(wr[p].path).ok
       THEN Fail(p, "JSONDecodeError")
       ELSE /\ pc' = [pc EXCEPT ![p] = "emit"]
            /\ wr' = [wr EXCEPT ![p] =
                        [q \in DOMAIN wr[p] \cup {"new_etag"} |->
                           IF q = "new_etag"
                           THEN read_json_with_etag(wr[p].path).etag
                           ELSE wr[p][q]]]
            /\ UNCHANGED res
    /\ UNCHANGED <<files, tmp, journal, now, uuid, req, nops, nticks, limits, pruned, completed>>

----------------------------------------------------------------------------
(* emit_event *)

\* ev with the keys of extra added (extra wins)
Merge(ev, extra) ==
    [k \in DOMAIN ev \cup DOMAIN extra |->
        IF k \in DOMAIN extra THEN extra[k] ELSE ev[k]]

\* event.get(key, default)
Get(ev, key, default) == IF key \in DOMAIN ev THEN ev[key] ELSE default

\* The legacy kind/action event as an event of the new format
Legacy(ev, kind, actor, extra) ==
    Merge([event |-> kind, task |-> Get(ev, "task", None),
           actor |-> Get(ev, "actor", actor),
           notes |-> Get(ev, "message", ""),
           ts |-> Get(ev, "ts", now_iso)], extra)

\* normalize_event_format (cli): an event with an "event" key passes as it
\* is; a legacy kind/action event is mapped; anything else passes as it is.
normalize_event_format(ev) ==
    LET kind == Get(ev, "kind", None)
        action == Get(ev, "action", None)
    IN  IF "event" \in DOMAIN ev THEN ev
        ELSE IF kind = "task" /\ action = "in_progress"
        THEN Legacy(ev, "status_changed", "unknown",
                    [old_status |-> "queued", new_status |-> "in_progress"])
        ELSE IF kind = "pr" /\ action = "opened"
        THEN Legacy(ev, "pr_opened", "unknown",
                    [pr |-> Get(ev, "pr_number", None), url |-> Get(ev, "url", "")])
        ELSE IF kind = "test" /\ action = "completed"
        THEN Legacy(ev, "tests_run", "ci", [status |-> Get(ev, "result", "unknown")])
        ELSE IF kind = "review" /\ action = "requested"
        THEN Legacy(ev, "review_requested", "ci", <<>>)
        ELSE IF kind = "review" /\ action = "approved"
        THEN Legacy(ev, "approved", "critic", <<>>)
        ELSE IF kind = "merge" /\ action = "completed"
        THEN Legacy(ev, "merged", "integrator", <<>>)
        ELSE ev

\* The event the handler of p passes to emit_event after its write: srv adds
\* prev_etag (the ETag write_json_atomic found) and new_etag to every event;
\* cli adds them to lease events only, with the ETag it read as prev_etag.
\* A direct emit_event call passes the caller's event, which cli normalises.
\* An event whose two tokens are the wrong way round
EventOf_TokensSwapped(p) ==
    Merge(wr[p].event,
          [prev_etag |-> wr[p].new_etag, new_etag |-> wr[p].prev_etag])

EventOf(p) ==
    IF req[p].op = "emit_event"
    THEN IF req[p].fe = "cli" THEN normalize_event_format(wr[p].event)
         ELSE wr[p].event
    ELSE IF req[p].fe = "srv"
    THEN Merge(wr[p].event,
               [prev_etag |-> wr[p].prev_etag, new_etag |-> wr[p].new_etag])
    ELSE IF wr[p].path = "locks"
    THEN Merge(wr[p].event,
               [prev_etag |-> wr[p].expected_etag, new_etag |-> wr[p].new_etag])
    ELSE wr[p].event

\* An emit_event that writes its line twice
emit_event_Twice(ev) ==
    journal' = Append(Append(journal, Merge([ts |-> now_iso], ev)),
                      Merge([ts |-> now_iso], ev))

\* An emit_event that writes its line before the last line of the file
emit_event_BeforeLast(ev) ==
    journal' = IF journal = <<>> THEN <<Merge([ts |-> now_iso], ev)>>
               ELSE SubSeq(journal, 1, Len(journal) - 1)
                    \o <<Merge([ts |-> now_iso], ev), journal[Len(journal)]>>

\* An emit_event that writes its line at the head of the file
emit_event_AtHead(ev) ==
    journal' = <<Merge([ts |-> now_iso], ev)>> \o journal

\* ev.setdefault("ts", now_iso()); append one line
emit_event(ev) ==
    journal' = Append(journal, Merge([ts |-> now_iso], ev))

\* The handler emits its event and returns.
Emit(p) ==
    /\ pc[p] = "emit"
    /\ emit_event(EventOf(p))
    /\ pc' = [pc EXCEPT ![p] = "done"]
    /\ res' = [res EXCEPT ![p] = [outcome |-> "ok", ret |-> wr[p].ret]]
    /\ wr' = [wr EXCEPT ![p] = NoWrite]
    /\ completed' = [completed EXCEPT
                       ![p] = Append(@, Merge([ts |-> now_iso], EventOf(p)))]
    /\ UNCHANGED <<files, tmp, now, uuid, req, nops, nticks, limits, pruned>>

\* collab.emit_event / emit-event: the caller's event goes to the journal;
\* no collection is read or written.
rpc_emit_event(p, fe, ev) ==
    /\ Start(p, [op |-> "emit_event", fe |-> fe, event |-> ev])
    /\ nops < limits.ops
    /\ nops' = nops + 1
    /\ pc' = [pc EXCEPT ![p] = "emit"]
    /\ wr' = [wr EXCEPT ![p] = [path |-> "none", event |-> ev, ret |-> TRUE]]
    /\ res' = [res EXCEPT ![p] = [outcome |-> "pending"]]
    /\ UNCHANGED <<files, tmp, journal, now, uuid, nticks, limits, pruned, completed>>

\* The caller has the outcome; the process is ready for its next call.
Return(p) ==
    /\ pc[p] = "done"
    /\ pc' = [pc EXCEPT ![p] = "idle"]
    /\ req' = [req EXCEPT ![p] = NoReq]
    /\ res' = [res EXCEPT ![p] = NoRes]
    /\ UNCHANGED <<files, tmp, journal, now, uuid, wr, nops, nticks, limits, pruned, completed>>

----------------------------------------------------------------------------
(* generate_collab_log: the per-task summary rendered from the journal *)

\* main: grouped[e.get("task", "(none)")].append(e)
Grouped(events, task_id) ==
    LET of_task(e) == "task" \in DOMAIN e /\ e.task = task_id
    IN  SelectSeq(events, of_task)

\* evs.sort(key=lambda e: e.get("ts", "")): a stable sort, events with
\* equal timestamps keep their order
RECURSIVE InsertByTs(_, _)
InsertByTs(sorted, e) ==
    IF sorted = <<>> THEN <<e>>
    ELSE IF sorted[Len(sorted)].ts <= e.ts THEN Append(sorted, e)
    ELSE Append(InsertByTs(SubSeq(sorted, 1, Len(sorted) - 1), e),
                sorted[Len(sorted)])

RECURSIVE SortByTs(_)
SortByTs(evs) ==
    IF evs = <<>> THEN <<>>
    ELSE InsertByTs(SortByTs(SubSeq(evs, 1, Len(evs) - 1)), evs[Len(evs)])

\* render: latest_status = e.get("new_status") of the last status_changed
\* event of the sorted list, None when there is none
RECURSIVE latest_status(_)
latest_status(evs) ==
    IF evs = <<>> THEN None
    ELSE IF evs[Len(evs)].event = "status_changed"
    THEN evs[Len(evs)].new_status
    ELSE latest_status(SubSeq(evs, 1, Len(evs) - 1))

\* The "- Status:" line of the task in the log rendered from the journal
RenderedStatus(task_id) == latest_status(SortByTs(Grouped(journal, task_id)))

----------------------------------------------------------------------------
(* TaskRegistry *)

\* Index of the first task with this id, 0 when there is none
\* (for t in tasks: if t.get("id") == task_id).
FindTask(tasks, task_id) ==
    IF \E i \in DOMAIN tasks : tasks[i].id = task_id
    THEN CHOOSE i \in DOMAIN tasks :
            /\ tasks[i].id = task_id
            /\ \A j \in DOMAIN tasks : tasks[j].id = task_id => i <= j
    ELSE 0

\* A task whose definition of done is taken from the caller's labels
NewTask_DodFromCaller(new_id, labels, assignee) ==
    [ id |-> new_id, status |-> "queued", assignee |-> assignee,
      labels |-> labels, dependencies |-> <<>>, blockers |-> <<>>,
      dod |-> labels, external_ids |-> <<>>,
      created_at |-> now_iso, updated_at |-> now_iso ]

NewTask(new_id, labels, assignee) ==
    [ id |-> new_id, status |-> "queued", assignee |-> assignee,
      labels |-> labels, dependencies |-> <<>>, blockers |-> <<>>,
      dod |-> <<>>, external_ids |-> <<>>,
      created_at |-> now_iso, updated_at |-> now_iso ]

\* new_id = params.get("id") or f"task-{len(tasks) + 1:03d}"
NewTaskId(id, tasks) == IF id # None THEN id ELSE TaskId(Len(tasks) + 1)

\* collab.create_task / create_task_cli
create_task(p, fe, id, labels, assignee) ==
    /\ Start(p, [op |-> "create_task", fe |-> fe, id |-> id,
                 labels |-> labels, assignee |-> assignee])
    /\ LET r == read_json_with_etag("tasks")
           tasks == r.data.items
           new_id == NewTaskId(id, tasks)
           new_data == [version |-> r.data.version,
                        items |-> Append(tasks, NewTask(new_id, labels, assignee))]
       IN  IF ~r.ok THEN Raise(p, "JSONDecodeError")
           ELSE /\ Len(tasks) < MaxTasks
                /\ CallWrite(p, "tasks", new_data, r.etag,
                             [event |-> "task_created", task |-> new_id], new_id)
    /\ UNCHANGED <<files, tmp, journal, now, uuid, nticks, limits, pruned, completed>>

\* The fields update stores: srv stores every field passed, cli drops the
\* fields whose value is None.  A field that was not passed is None here.
\* An update that leaves the status as it is
UpdateFields_KeepsStatus(t, status, assignee) ==
    [t EXCEPT !.assignee = IF assignee # None THEN assignee ELSE @,
              !.updated_at = now_iso]

UpdateFields(t, status, assignee) ==
    [t EXCEPT !.status = IF status # None THEN status ELSE @,
              !.assignee = IF assignee # None THEN assignee ELSE @,
              !.updated_at = now_iso]

\* collab.update_task / update_task_cli
update_task(p, fe, task_id, status, assignee) ==
    /\ Start(p, [op |-> "update_task", fe |-> fe, id |-> task_id,
                 status |-> status, assignee |-> assignee])
    /\ LET r == read_json_with_etag("tasks")
           tasks == r.data.items
           i == FindTask(tasks, task_id)
       IN  IF ~r.ok THEN Raise(p, "JSONDecodeError")
           ELSE IF i = 0 THEN Raise(p, "NotFound")
           ELSE IF status # None /\ ~In(status, ALLOWED_STATUSES)
           THEN Raise(p, "InvalidStatus")
           ELSE CallWrite(p, "tasks",
                    [version |-> r.data.version,
                     items |-> [tasks EXCEPT ![i] =
                                  UpdateFields(tasks[i], status, assignee)]],
                    r.etag, [event |-> "task_updated", task |-> task_id], TRUE)
    /\ UNCHANGED <<files, tmp, journal, now, uuid, nticks, limits, pruned, completed>>

\* A transition check that lets every recognised status through
TransitionAllowed_Any(old_status, new_status) == TRUE

\* if new_status not in allowed: raise
TransitionAllowed(old_status, new_status) == In(new_status, allowed_next(old_status))

\* A transition that looks for the task before it looks at the status
transition_task_FindsFirst(p, fe, task_id, new_status) ==
    /\ Start(p, [op |-> "transition_task", fe |-> fe, id |-> task_id,
                 new_status |-> new_status])
    /\ LET r == read_json_with_etag("tasks")
           tasks == r.data.items
           i == FindTask(tasks, task_id)
       IN  IF ~r.ok THEN Raise(p, "JSONDecodeError")
           ELSE IF i = 0 THEN Raise(p, "NotFound")
           ELSE IF ~In(new_status, ALLOWED_STATUSES) THEN Raise(p, "InvalidStatus")
           ELSE IF ~TransitionAllowed(tasks[i].status, new_status)
           THEN Raise(p, "InvalidTransition")
           ELSE CallWrite(p, "tasks",
                    [version |-> r.data.version,
                     items |-> [tasks EXCEPT ![i] =
                                  [@ EXCEPT !.status = new_status,
                                            !.updated_at = now_iso]]],
                    r.etag,
                    [event |-> "status_changed", task |-> task_id,
                     old_status |-> tasks[i].status,
                     new_status |-> new_status],
                    TRUE)
    /\ UNCHANGED <<files, tmp, journal, now, uuid, nticks, limits, pruned, completed>>

\* collab.transition_task / transition_task_cli
transition_task(p, fe, task_id, new_status) ==
    /\ Start(p, [op |-> "transition_task", fe |-> fe, id |-> task_id,
                 new_status |-> new_status])
    /\ LET r == read_json_with_etag("tasks")
           tasks == r.data.items
           i == FindTask(tasks, task_id)
       IN  IF ~In(new_status, ALLOWED_STATUSES) THEN Raise(p, "InvalidStatus")
           ELSE IF ~r.ok THEN Raise(p, "JSONDecodeError")
           ELSE IF i = 0 THEN Raise(p, "NotFound")
           ELSE IF ~TransitionAllowed(tasks[i].status, new_status)
           THEN Raise(p, "InvalidTransition")
           ELSE CallWrite(p, "tasks",
                    [version |-> r.data.version,
                     items |-> [tasks EXCEPT ![i] =
                                  [@ EXCEPT !.status = new_status,
                                            !.updated_at = now_iso]]],
                    r.etag,
                    IF fe = "srv"
                    THEN [event |-> "status_changed", task |-> task_id,
                          old_status |-> tasks[i].status,
                          new_status |-> new_status, reason |-> None]
                    ELSE [event |-> "status_changed", task |-> task_id,
                          old_status |-> tasks[i].status,
                          new_status |-> new_status],
                    TRUE)
    /\ UNCHANGED <<files, tmp, journal, now, uuid, nticks, limits, pruned, completed>>

\* A link that stores a fresh mapping for the provider
Linked_FreshProvider(external_ids, provider, key, value) ==
    Merge(external_ids, provider :> (key :> value))

\* t["external_ids"] after external_ids[provider][key] = value, where a
\* missing external_ids or provider counts as an empty mapping
Linked(external_ids, provider, key, value) ==
    LET prov == IF provider \in DOMAIN external_ids
                THEN external_ids[provider] ELSE <<>>
    IN  Merge(external_ids, provider :> Merge(prov, key :> value))

\* collab.link_external (srv only); key defaults to "id"
link_external(p, task_id, provider, key, value) ==
    /\ Start(p, [op |-> "link_external", fe |-> "srv", id |-> task_id,
                 provider |-> provider, key |-> key, value |-> value])
    /\ LET r == read_json_with_etag("tasks")
           tasks == r.data.items
           i == FindTask(tasks, task_id)
           k == IF key = None THEN "id" ELSE key
       IN  IF ~r.ok THEN Raise(p, "JSONDecodeError")
           ELSE IF i = 0 THEN Raise(p, "NotFound")
           ELSE CallWrite(p, "tasks",
                    [version |-> r.data.version,
                     items |-> [tasks EXCEPT ![i] =
                                  [@ EXCEPT !.external_ids =
                                              Linked(@, provider, k, value),
                                            !.updated_at = now_iso]]],
                    r.etag,
                    [event |-> "task_linked", task |-> task_id,
                     provider |-> provider, key |-> k, value |-> value],
                    TRUE)
    /\ UNCHANGED <<files, tmp, journal, now, uuid, nticks, limits, pruned, completed>>

----------------------------------------------------------------------------
(* LeaseManager *)

TTL_SECONDS == 900

\* Seconds from the timestamp ts to the clock reading t (in ticks), times
\* TicksPerSecond: (now - acq_t).total_seconds() / now - acquired
TicksSince(t, ts) == t - ts * TicksPerSecond

\* A prune that goes by the heartbeat alone
Fresh_HeartbeatOnly(lease, t) ==
    t - lease.heartbeat_at * TicksPerSecond <= lease.ttl_seconds * TicksPerSecond

\* A prune that already drops a lease at the last instant of its ttl
Fresh_Strict(lease, t) ==
    /\ t - lease.acquired_at * TicksPerSecond < lease.ttl_seconds * TicksPerSecond
    /\ t - lease.heartbeat_at * TicksPerSecond < lease.ttl_seconds * TicksPerSecond

\* srv: acq_t = fromisoformat(acq) if acq else now, the clock reading when
\* the lease has no acquired_at
acq_t(lease, t) ==
    IF "acquired_at" \in DOMAIN lease
    THEN lease.acquired_at * TicksPerSecond ELSE t

\* srv: hb = lease.get("heartbeat_at", acq); hb_t likewise
hb_t(lease, t) ==
    IF "heartbeat_at" \in DOMAIN lease
    THEN lease.heartbeat_at * TicksPerSecond ELSE acq_t(lease, t)

\* lease.get("ttl_seconds", TTL_SECONDS), in ticks
ttl(lease) ==
    (IF "ttl_seconds" \in DOMAIN lease THEN lease.ttl_seconds ELSE TTL_SECONDS)
        * TicksPerSecond

\* srv acquire keeps a lease iff neither bound is exceeded:
\*   (now - acq_t).total_seconds() <= ttl and (now - hb_t).total_seconds() <= ttl
Fresh(lease, t) ==
    /\ t - acq_t(lease, t) <= ttl(lease)
    /\ t - hb_t(lease, t) <= ttl(lease)

\* cli: _parse_ts gives 0.0, the epoch, for a missing timestamp; the run
\* starts more than a ttl after the epoch
Epoch == 0 - (TTL_SECONDS + 1) * TicksPerSecond

parse_ts(lease, key) ==
    IF key \in DOMAIN lease THEN lease[key] * TicksPerSecond ELSE Epoch

\* A prune of the tool that drops a lease at the last instant of its ttl
Stale_AtTtl(lease, t) ==
    LET acquired == parse_ts(lease, "acquired_at")
        heartbeat == IF "heartbeat_at" \in DOMAIN lease
                     THEN parse_ts(lease, "heartbeat_at") ELSE acquired
    IN  t - acquired >= ttl(lease) \/ t - heartbeat >= ttl(lease)

\* cli acquire skips a lease iff
\*   now - acquired > ttl or now - heartbeat > ttl
Stale(lease, t) ==
    LET acquired == parse_ts(lease, "acquired_at")
        heartbeat == IF "heartbeat_at" \in DOMAIN lease
                     THEN parse_ts(lease, "heartbeat_at") ELSE acquired
    IN  t - acquired > ttl(lease) \/ t - heartbeat > ttl(lease)

\* cli, prune stale: the leases the tool's acquire keeps at clock reading t
fresh_locks(locks, t) ==
    LET keep(lease) == ~Stale(lease, t) IN SelectSeq(locks, keep)

\* An acquire that keeps every lease it read
Prune_Nothing(locks, t) == locks

\* srv, prune stale: the leases the service's acquire keeps at clock
\* reading t
Prune(locks, t) == LET keep(lease) == Fresh(lease, t) IN SelectSeq(locks, keep)

\* An acquire that does not look for a surviving lease of the path
ActiveLeaseOn_Never(locks, path) == FALSE

\* for lease in locks: if lease["path"] == path: raise
ActiveLeaseOn(locks, path) == \E i \in DOMAIN locks : locks[i].path = path

\* lock_id: "L-" + sha1(path + owner + now_iso())[:8] in srv, taken as
\* collision free; "L-" + uuid4().hex[:8] in cli, a value never drawn before.
NewLockId(fe, path, owner) ==
    IF fe = "srv" THEN <<path \o owner, now_iso>> ELSE <<"uuid4", uuid>>

\* The three clock readings of the handler (lock_id, acquired_at and
\* heartbeat_at) are taken in the same step as its reading of the file.
NewLease(fe, path, owner, purpose) ==
    [ path |-> path, owner |-> owner, purpose |-> purpose,
      lock_id |-> NewLockId(fe, path, owner),
      acquired_at |-> now_iso, ttl_seconds |-> TTL_SECONDS,
      heartbeat_at |-> now_iso ]

\* collab.acquire_lease / acquire_lease
acquire_lease(p, fe, path, owner, purpose) ==
    /\ Start(p, [op |-> "acquire_lease", fe |-> fe, path |-> path,
                 owner |-> owner, purpose |-> purpose, at |-> now])
    /\ LET r == read_json_with_etag("locks")
           locks == IF fe = "srv" THEN Prune(r.data.items, now)
                    ELSE fresh_locks(r.data.items, now)
           lease == NewLease(fe, path, owner, purpose)
       IN  IF ~r.ok THEN Raise(p, "JSONDecodeError") /\ UNCHANGED uuid
           ELSE IF ActiveLeaseOn(locks, path)
           THEN Raise(p, "Conflict") /\ UNCHANGED uuid
           ELSE /\ CallWrite(p, "locks",
                      [version |-> 1, items |-> Append(locks, lease)], r.etag,
                      [event |-> "file_locked", path |-> path,
                       lock_id |-> lease.lock_id, owner |-> owner,
                       task |-> purpose],
                      lease.lock_id)
                /\ uuid' = IF fe = "cli" THEN uuid + 1 ELSE uuid
    /\ UNCHANGED <<files, tmp, journal, now, nticks, limits, pruned, completed>>

\* A match on the lock_id alone
LeaseMatches_AnyOwner(lease, lock_id, owner) == lease.lock_id = lock_id

\* lease.get("lock_id") == lock_id and lease.get("owner") == owner
LeaseMatches(lease, lock_id, owner) ==
    lease.lock_id = lock_id /\ lease.owner = owner

\* Index of the first lease of the pair, 0 when there is none
FindLease(locks, lock_id, owner) ==
    IF \E i \in DOMAIN locks : LeaseMatches(locks[i], lock_id, owner)
    THEN CHOOSE i \in DOMAIN locks :
            /\ LeaseMatches(locks[i], lock_id, owner)
            /\ \A j \in DOMAIN locks :
                  LeaseMatches(locks[j], lock_id, owner) => i <= j
    ELSE 0

\* A renew that refuses a lease past its ttl
renew_lease_ChecksExpiry(p, lock_id, owner) ==
    /\ Start(p, [op |-> "renew_lease", fe |-> "cli", lock_id |-> lock_id,
                 owner |-> owner])
    /\ LET r == read_json_with_etag("locks")
           locks == r.data.items
           i == FindLease(locks, lock_id, owner)
       IN  IF ~r.ok THEN Raise(p, "JSONDecodeError")
           ELSE IF i = 0 THEN Raise(p, "NotFound")
           ELSE IF ~Fresh(locks[i], now) THEN Raise(p, "NotFound")
           ELSE CallWrite(p, "locks",
                    [version |-> r.data.version,
                     items |-> [locks EXCEPT ![i].heartbeat_at = now_iso]],
                    r.etag,
                    [event |-> "lease_renewed", lock_id |-> lock_id,
                     owner |-> owner],
                    TRUE)
    /\ UNCHANGED <<files, tmp, journal, now, uuid, nticks, limits, pruned, completed>>

\* A renew that starts the lease afresh
renew_lease_Reacquires(p, lock_id, owner) ==
    /\ Start(p, [op |-> "renew_lease", fe |-> "cli", lock_id |-> lock_id,
                 owner |-> owner])
    /\ LET r == read_json_with_etag("locks")
           locks == r.data.items
           i == FindLease(locks, lock_id, owner)
       IN  IF ~r.ok THEN Raise(p, "JSONDecodeError")
           ELSE IF i = 0 THEN Raise(p, "NotFound")
           ELSE CallWrite(p, "locks",
                    [version |-> r.data.version,
                     items |-> [locks EXCEPT ![i].heartbeat_at = now_iso,
                                           ![i].acquired_at = now_iso]],
                    r.etag,
                    [event |-> "lease_renewed", lock_id |-> lock_id,
                     owner |-> owner],
                    TRUE)
    /\ UNCHANGED <<files, tmp, journal, now, uuid, nticks, limits, pruned, completed>>

\* renew_lease (cli only): the first lease of the pair gets heartbeat_at = now
renew_lease(p, lock_id, owner) ==
    /\ Start(p, [op |-> "renew_lease", fe |-> "cli", lock_id |-> lock_id,
                 owner |-> owner])
    /\ LET r == read_json_with_etag("locks")
           locks == r.data.items
           i == FindLease(locks, lock_id, owner)
       IN  IF ~r.ok THEN Raise(p, "JSONDecodeError")
           ELSE IF i = 0 THEN Raise(p, "NotFound")
           ELSE CallWrite(p, "locks",
                    [version |-> r.data.version,
                     items |-> [locks EXCEPT ![i].heartbeat_at = now_iso]],
                    r.etag,
                    [event |-> "lease_renewed", lock_id |-> lock_id,
                     owner |-> owner],
                    TRUE)
    /\ UNCHANGED <<files, tmp, journal, now, uuid, nticks, limits, pruned, completed>>

\* The leases release keeps: those that are not of the pair
Released(locks, lock_id, owner) ==
    LET keep(lease) == ~LeaseMatches(lease, lock_id, owner)
    IN  SelectSeq(locks, keep)

\* collab.release_lease / release_lease
release_lease(p, fe, lock_id, owner) ==
    /\ Start(p, [op |-> "release_lease", fe |-> fe, lock_id |-> lock_id,
                 owner |-> owner])
    /\ LET r == read_json_with_etag("locks")
           locks == r.data.items
           kept == Released(locks, lock_id, owner)
       IN  IF ~r.ok THEN Raise(p, "JSONDecodeError")
           ELSE IF Len(kept) = Len(locks) THEN Raise(p, "NotFound")
           ELSE CallWrite(p, "locks",
                    [version |-> r.data.version, items |-> kept], r.etag,
                    [event |-> "lease_released", lock_id |-> lock_id,
                     owner |-> owner],
                    TRUE)
    /\ UNCHANGED <<files, tmp, journal, now, uuid, nticks, limits, pruned, completed>>

----------------------------------------------------------------------------
(* Agents *)

\* An upsert that never finds the agent
FindAgent_Never(agents, agent_id) == 0

\* for a in agents: if a.get("id") == agent_id
FindAgent(agents, agent_id) == FindTask(agents, agent_id)

\* collab.update_agent (srv only): the agent of the id gets the fields
\* (a.update(fields)), a new agent {"id": agent_id, **fields} is appended
\* when there is none.  fields are the parameters other than id.
rpc_update_agent(p, agent_id, fields) ==
    /\ Start(p, [op |-> "update_agent", fe |-> "srv", id |-> agent_id,
                 fields |-> fields])
    /\ LET r == read_json_with_etag("agents")
           agents == r.data.items
           i == FindAgent(agents, agent_id)
       IN  IF ~r.ok THEN Raise(p, "JSONDecodeError")
           ELSE CallWrite(p, "agents",
                    [version |-> r.data.version,
                     items |-> IF i = 0
                               THEN Append(agents,
                                           Merge([id |-> agent_id], fields))
                               ELSE [agents EXCEPT ![i] = Merge(@, fields)]],
                    r.etag, [event |-> "agent_updated", agent |-> agent_id], TRUE)
    /\ UNCHANGED <<files, tmp, journal, now, uuid, nticks, limits, pruned, completed>>

----------------------------------------------------------------------------
(* AssignmentAdvisor *)

backend_pool == <<"codex-cli-1", "codex-cli-2">>
frontend_pool == <<"cursor-ide", "cursor-ide-2">>
docs_pool == <<"gemini-cli-1">>

\* A fallback that takes the members of all three pools
PoolOf_AllPools(labels) ==
    IF {"backend", "devops", "ci"} \cap Range(labels) # {} THEN backend_pool
    ELSE IF {"frontend", "e2e"} \cap Range(labels) # {} THEN frontend_pool
    ELSE IF {"docs", "review"} \cap Range(labels) # {} THEN docs_pool
    ELSE backend_pool \o frontend_pool \o docs_pool

\* The pool the labels select: the first of backend, frontend and docs one
\* of whose keywords is among the labels, else backend_pool + frontend_pool
PoolOf(labels) ==
    IF {"backend", "devops", "ci"} \cap Range(labels) # {} THEN backend_pool
    ELSE IF {"frontend", "e2e"} \cap Range(labels) # {} THEN frontend_pool
    ELSE IF {"docs", "review"} \cap Range(labels) # {} THEN docs_pool
    ELSE backend_pool \o frontend_pool

\* The keys of load, in the order in which the dict got them: the ids of
\* the stored agents that are in the pool, each at its first occurrence
Candidates(agents, pool) ==
    LET ids == [i \in DOMAIN agents |-> agents[i].id]
        first(i) == In(ids[i], pool) /\ \A j \in 1 .. i - 1 : ids[j] # ids[i]
        RECURSIVE from(_)
        from(i) == IF i > Len(ids) THEN <<>>
                   ELSE IF first(i) THEN <<ids[i]>> \o from(i + 1)
                   ELSE from(i + 1)
    IN  from(1)

\* A load that counts the tasks of every status
Load_AnyStatus(tasks, a) ==
    Cardinality({ i \in DOMAIN tasks : tasks[i].assignee = a })

\* load[a]: the number of tasks in_progress whose assignee is a
Load(tasks, a) ==
    Cardinality({ i \in DOMAIN tasks :
                    tasks[i].status = "in_progress" /\ tasks[i].assignee = a })

\* sorted(load.items(), key=lambda kv: kv[1])[0][0]: the sort is stable, so
\* of the keys with the least load the first in the dict's order comes out;
\* None when load is empty
Suggested(labels, agents, tasks) ==
    LET cand == Candidates(agents, PoolOf(labels))
    IN  IF cand = <<>> THEN None
        ELSE cand[CHOOSE i \in DOMAIN cand :
                    /\ \A j \in DOMAIN cand :
                          Load(tasks, cand[i]) <= Load(tasks, cand[j])
                    /\ \A j \in 1 .. i - 1 :
                          Load(tasks, cand[j]) > Load(tasks, cand[i])]

\* collab.suggest_assignee (srv only): reads tasks and agents, writes nothing
suggest_assignee(p, labels) ==
    /\ Start(p, [op |-> "suggest_assignee", fe |-> "srv", labels |-> labels])
    /\ LET data_tasks == read_json_with_etag("tasks")
           data_agents == read_json_with_etag("agents")
       IN  IF ~data_tasks.ok \/ ~data_agents.ok
           THEN Raise(p, "JSONDecodeError")
           ELSE /\ pc' = [pc EXCEPT ![p] = "done"]
                /\ wr' = [wr EXCEPT ![p] = NoWrite]
                /\ res' = [res EXCEPT ![p] =
                             [outcome |-> "ok",
                              ret |-> Suggested(labels, data_agents.data.items,
                                                data_tasks.data.items)]]
                /\ UNCHANGED nops
    /\ UNCHANGED <<files, tmp, journal, now, uuid, nticks, limits, pruned, completed>>

\* params.get("labels") of a call that passes no labels
NoLabels == <<None>>

\* labels = params.get("labels"); when None, the labels of the first task
\* of the id, [] when there is no such task
LabelsFor(tasks, task_id, labels) ==
    IF labels # NoLabels THEN labels
    ELSE IF FindTask(tasks, task_id) = 0 THEN <<>>
    ELSE tasks[FindTask(tasks, task_id)].labels

\* collab.auto_assign, up to its call of update_task: the labels are
\* resolved and suggest_assignee is called; with no suggestion the call
\* returns {"assignee": None, "updated": False}
auto_assign(p, task_id, labels) ==
    /\ LET data_tasks == read_json_with_etag("tasks")
           data_agents == read_json_with_etag("agents")
           sug == Suggested(LabelsFor(data_tasks.data.items, task_id, labels),
                            data_agents.data.items, data_tasks.data.items)
       IN  /\ Start(p, [op |-> "auto_assign", fe |-> "srv", id |-> task_id,
                        labels |-> labels,
                        assignee |-> IF data_tasks.ok /\ data_agents.ok
                                     THEN sug ELSE None])
           /\ IF ~data_tasks.ok \/ ~data_agents.ok
              THEN Raise(p, "JSONDecodeError")
              ELSE IF sug = None
              THEN /\ pc' = [pc EXCEPT ![p] = "done"]
                   /\ wr' = [wr EXCEPT ![p] = NoWrite]
                   /\ res' = [res EXCEPT ![p] =
                                [outcome |-> "ok",
                                 ret |-> [assignee |-> None, updated |-> FALSE]]]
                   /\ UNCHANGED nops
              ELSE /\ pc' = [pc EXCEPT ![p] = "update"]
                   /\ UNCHANGED <<wr, res, nops>>
    /\ UNCHANGED <<files, tmp, journal, now, uuid, nticks, limits, pruned, completed>>

\* An assignment that also claims the task
auto_assign_update_Claims(p) ==
    /\ pc[p] = "update"
    /\ req' = req
    /\ LET r == read_json_with_etag("tasks")
           tasks == r.data.items
           i == FindTask(tasks, req[p].id)
       IN  IF ~r.ok THEN Raise(p, "JSONDecodeError")
           ELSE IF i = 0 THEN Raise(p, "NotFound")
           ELSE CallWrite(p, "tasks",
                    [version |-> r.data.version,
                     items |-> [tasks EXCEPT ![i] =
                                  UpdateFields(tasks[i], "claimed",
                                               req[p].assignee)]],
                    r.etag, [event |-> "task_updated", task |-> req[p].id],
                    [assignee |-> req[p].assignee, updated |-> TRUE])
    /\ UNCHANGED <<files, tmp, journal, now, uuid, nticks, limits, pruned, completed>>

\* auto_assign's update_task({"id": task_id, "assignee": assignee}) and,
\* after its write and event, return {"assignee": assignee, "updated": True}
auto_assign_update(p) ==
    /\ pc[p] = "update"
    /\ req' = req
    /\ LET r == read_json_with_etag("tasks")
           tasks == r.data.items
           i == FindTask(tasks, req[p].id)
       IN  IF ~r.ok THEN Raise(p, "JSONDecodeError")
           ELSE IF i = 0 THEN Raise(p, "NotFound")
           ELSE CallWrite(p, "tasks",
                    [version |-> r.data.version,
                     items |-> [tasks EXCEPT ![i] =
                                  UpdateFields(tasks[i], None, req[p].assignee)]],
                    r.etag, [event |-> "task_updated", task |-> req[p].id],
                    [assignee |-> req[p].assignee, updated |-> TRUE])
    /\ UNCHANGED <<files, tmp, journal, now, uuid, nticks, limits, pruned, completed>>

----------------------------------------------------------------------------
(* Clock *)

\* Time passes.
Tick(d) ==
    /\ nticks < limits.ticks
    /\ nticks' = nticks + 1
    /\ now' = now + d
    /\ UNCHANGED <<files, tmp, journal, uuid, pc, req, wr, res, nops, limits, pruned, completed>>

----------------------------------------------------------------------------
(* Inputs *)

TaskIds == {"task-001", "task-002"}
\* The id the concurrent runs pass: the one create allocates first
RaceIds == {"task-001"}
StatusInputs == Range(ALLOWED_STATUSES) \cup {"bogus"}
\* The statuses the concurrent runs pass: one step of the lifecycle, a
\* terminal status and an unrecognised one.
RaceStatuses == {"in_progress", "abandoned", "bogus"}
LabelInputs == {<<"backend">>}
LinkValues == {"42", "43"}

----------------------------------------------------------------------------
(* Specifications *)

\* No call is under way and the journal is empty; ops and ticks bound the
\* run, schema tells which schema files are in place and stored which
\* collection files.
StartFrom(ops, ticks, schema, stored) ==
    /\ limits = [ops |-> ops, ticks |-> ticks, schema |-> schema]
    /\ pruned = {}
    /\ completed = [p \in Procs |-> <<>>]
    /\ files = stored
    /\ tmp = [path \in Paths |-> NoFile]
    /\ journal = <<>>
    /\ now = 0
    /\ uuid = 0
    /\ pc = [p \in Procs |-> "idle"]
    /\ req = [p \in Procs |-> NoReq]
    /\ wr = [p \in Procs |-> NoWrite]
    /\ res = [p \in Procs |-> NoRes]
    /\ nops = 0
    /\ nticks = 0

\* The same with nothing stored
StartWith(ops, ticks, schema) ==
    StartFrom(ops, ticks, schema, [path \in Paths |-> NoFile])

\* The same with no schema file, as in the repository
Start0(ops, ticks) == StartWith(ops, ticks, [path \in Paths |-> NoSchema])

Init == Start0(MaxOps, MaxTicks)

\* The steps of write_json_atomic and emit_event of a call under way
WriteStep(p) ==
    \/ WriteCheck(p)
    \/ OpenTmp(p)
    \/ WriteTmp(p)
    \/ Replace(p)
    \/ ReRead(p)
    \/ Emit(p)
    \/ Return(p)

\* Processes run their calls concurrently.
TaskCall(p) ==
    \/ \E fe \in FrontEnds, id \in RaceIds \cup {None}, labels \in LabelInputs :
          create_task(p, fe, id, labels, None)
    \/ \E fe \in FrontEnds, id \in RaceIds, status \in RaceStatuses \cup {None} :
          update_task(p, fe, id, status, None)
    \/ \E fe \in FrontEnds, id \in RaceIds, new_status \in RaceStatuses :
          transition_task(p, fe, id, new_status)
    \/ \E id \in RaceIds, value \in LinkValues :
          link_external(p, id, "github", None, value)

Next == \E p \in Procs : TaskCall(p) \/ WriteStep(p)

Spec == Init /\ [][Next]_vars

\* One process runs its calls one after the other, with every status.
SeqProc == "p1"

SeqTaskCall ==
    \/ \E fe \in FrontEnds, id \in TaskIds \cup {None}, labels \in LabelInputs :
          create_task(SeqProc, fe, id, labels, None)
    \/ \E fe \in FrontEnds, id \in TaskIds, status \in StatusInputs \cup {None} :
          update_task(SeqProc, fe, id, status, None)
    \/ \E fe \in FrontEnds, id \in TaskIds, new_status \in StatusInputs :
          transition_task(SeqProc, fe, id, new_status)
    \/ \E id \in TaskIds, key \in {None, "url"}, value \in LinkValues :
          link_external(SeqProc, id, "github", key, value)

SeqNext == SeqTaskCall \/ WriteStep(SeqProc)

SeqSpec == Init /\ [][SeqNext]_vars

\* One process creates task-001 and takes it through its lifecycle: the
\* calls that reach write_json_atomic are, in this order, create and the
\* transitions to in_progress, review, approved, merging and done; after
\* the transition to in_progress it may also ask for done, any number of
\* times.
ScenarioOps == 6

ScenarioStatuses == <<"in_progress", "review", "approved", "merging", "done">>

ScenarioCall ==
    \/ /\ nops = 0
       /\ \E fe \in FrontEnds :
             create_task(SeqProc, fe, "task-001", <<"backend">>, None)
    \/ /\ nops \in DOMAIN ScenarioStatuses
       /\ \E fe \in FrontEnds :
             transition_task(SeqProc, fe, "task-001", ScenarioStatuses[nops])
    \/ /\ nops = 2
       /\ \E fe \in FrontEnds :
             transition_task(SeqProc, fe, "task-001", "done")

ScenarioNext == ScenarioCall \/ WriteStep(SeqProc)

ScenarioInit == Start0(ScenarioOps, 0)

ScenarioSpec == ScenarioInit /\ [][ScenarioNext]_vars

\* The agent a process works for: it passes this owner to the lease calls.
OwnerOf(p) == IF p = "p1" THEN "codex-cli-1" ELSE "cursor-ide"

LeasePaths == {"config.js", "api.py"}

\* The lock ids acquire has handed out, as the journal records them
IssuedLockIds ==
    { journal[i].lock_id :
        i \in { k \in DOMAIN journal : journal[k].event = "file_locked" } }

\* The clock advances to the last instant of the default ttl, or one tick
\* past it.
TickSteps == {TTL_SECONDS * TicksPerSecond, TTL_SECONDS * TicksPerSecond + 1}

\* In the lease runs the first agent works through the service and the
\* second through the command line tool, the only front-end with renew.
FrontEndOf(p) == IF p = "p1" THEN "srv" ELSE "cli"

LeaseCall(p) ==
    \/ \E path \in LeasePaths :
          acquire_lease(p, FrontEndOf(p), path, OwnerOf(p), "task-001")
    \/ \E lock_id \in IssuedLockIds :
          /\ FrontEndOf(p) = "cli"
          /\ renew_lease(p, lock_id, OwnerOf(p))
    \/ \E lock_id \in IssuedLockIds :
          release_lease(p, FrontEndOf(p), lock_id, OwnerOf(p))

LeaseNext ==
    \/ \E p \in Procs : LeaseCall(p) \/ WriteStep(p)
    \/ \E d \in TickSteps : Tick(d)

LeaseSpec == Init /\ [][LeaseNext]_vars

\* The lease runs again with a clock that advances twice by a little more
\* than half the ttl: a lease renewed after the first advance has a recent
\* heartbeat_at when the second takes it past its ttl.
RenewTicks == 2

HalfTtl == (TTL_SECONDS * TicksPerSecond) \div 2 + 1

RenewNext ==
    \/ \E p \in Procs : LeaseCall(p) \/ WriteStep(p)
    \/ Tick(HalfTtl)

RenewInit == Start0(MaxOps, RenewTicks)

RenewSpec == RenewInit /\ [][RenewNext]_vars

\* Every mutating call and the direct emit_event, one input of each kind:
\* the first agent works through the service, the second through the
\* command line tool, and the clock advances as in the renew runs.
CoreOps == 3

StatusEvent == [event |-> "pr_opened", task |-> "task-001"]

CoreCall(p) ==
    \/ create_task(p, FrontEndOf(p), None, <<"backend">>, None)
    \/ update_task(p, FrontEndOf(p), "task-001", None, OwnerOf(p))
    \/ \E new_status \in {"in_progress", "bogus"} :
          transition_task(p, FrontEndOf(p), "task-001", new_status)
    \/ /\ FrontEndOf(p) = "srv"
       /\ link_external(p, "task-001", "github", None, "42")
    \/ \E path \in LeasePaths :
          acquire_lease(p, FrontEndOf(p), path, OwnerOf(p), "task-001")
    \/ \E lock_id \in IssuedLockIds :
          /\ FrontEndOf(p) = "cli"
          /\ renew_lease(p, lock_id, OwnerOf(p))
    \/ \E lock_id \in IssuedLockIds :
          release_lease(p, FrontEndOf(p), lock_id, OwnerOf(p))
    \/ /\ FrontEndOf(p) = "srv"
       /\ rpc_update_agent(p, OwnerOf(p), [status |-> "busy"])
    \/ rpc_emit_event(p, FrontEndOf(p), StatusEvent)

\* The lease runs with a scheduler that keeps every process running: a
\* process whose call is under way takes its next step (each is a system
\* call or a return, none waits for a condition).
LiveOps == 2

LiveInit == Start0(LiveOps, MaxTicks)

LiveSpec ==
    /\ LiveInit
    /\ [][LeaseNext]_vars
    /\ \A p \in Procs : WF_vars(WriteStep(p))

\* The service with schema files in place: two of its processes run every
\* mutating call.  The first schema allows one item per collection, tasks
\* that are queued and have no external ids; the second wants at least one
\* item and allows every status.
SchemaOps == 3

Strict == [enabled |-> TRUE, minItems |-> 0, maxItems |-> 1,
           statuses |-> {"queued", "busy"}, links |-> FALSE]

NonEmpty == [enabled |-> TRUE, minItems |-> 1, maxItems |-> 2,
             statuses |-> Range(ALLOWED_STATUSES) \cup {"busy"}, links |-> TRUE]

Schemas == {Strict, NonEmpty}

SchemaCall(p) ==
    \/ create_task(p, "srv", None, <<"backend">>, None)
    \/ update_task(p, "srv", "task-001", "in_progress", None)
    \/ transition_task(p, "srv", "task-001", "in_progress")
    \/ link_external(p, "task-001", "github", None, "42")
    \/ \E path \in LeasePaths :
          acquire_lease(p, "srv", path, OwnerOf(p), "task-001")
    \/ \E lock_id \in IssuedLockIds :
          release_lease(p, "srv", lock_id, OwnerOf(p))
    \/ rpc_update_agent(p, OwnerOf(p), [status |-> "busy"])

SchemaNext == \E p \in Procs : SchemaCall(p) \/ WriteStep(p)

SchemaInit ==
    \E schema \in Schemas :
        StartWith(SchemaOps, 0, [path \in Paths |-> schema])

SchemaSpec == SchemaInit /\ [][SchemaNext]_vars

\* suggest_assignee on stored agents and tasks drawn from small sets: up to
\* MaxAgents registered agents, in any order, and up to MaxAssigned tasks,
\* each queued or in progress and assigned to a member of the backend pool.
MaxAgents == 2
MaxAssigned == 2

AgentIds == Range(backend_pool \o frontend_pool \o docs_pool)

\* The sequences without repetition of at most n elements of S
Arrangements(S, n) ==
    UNION { { q \in [1 .. k -> S] : \A i, j \in 1 .. k : q[i] = q[j] => i = j } :
            k \in 0 .. n }

\* A stored task as create and update leave it
StoredTask(n, status, assignee) ==
    [ id |-> TaskId(n), status |-> status, assignee |-> assignee,
      labels |-> <<>>, dependencies |-> <<>>, blockers |-> <<>>,
      dod |-> <<>>, external_ids |-> <<>>, created_at |-> 0, updated_at |-> 0 ]

\* The collection file with these items; no file when there is none yet
Stored(items) ==
    IF items = <<>> THEN NoFile
    ELSE FileOf(json_dumps([version |-> 1, items |-> items]))

SuggestLabels ==
    {<<>>, <<"backend">>, <<"e2e">>, <<"docs">>, <<"review", "ci">>, <<"misc">>}

SuggestInit ==
    \E ids \in Arrangements(AgentIds, MaxAgents),
       k \in 0 .. MaxAssigned :
       \E st \in [1 .. k -> {"queued", "in_progress"}],
          who \in [1 .. k -> Range(backend_pool)] :
          StartFrom(0, 0, [path \in Paths |-> NoSchema],
                    [path \in Paths |->
                       CASE path = "agents" ->
                              Stored([i \in DOMAIN ids |->
                                        [id |-> ids[i], status |-> "idle"]])
                         [] path = "tasks" ->
                              Stored([i \in 1 .. k |->
                                        StoredTask(i, st[i], who[i])])
                         [] OTHER -> NoFile])

SuggestNext ==
    \/ \E labels \in SuggestLabels : suggest_assignee(SeqProc, labels)
    \/ Return(SeqProc)

SuggestSpec == SuggestInit /\ [][SuggestNext]_vars

\* One process of the service upserts agents, one call after the other.
AgentOps == 3

AgentFields == {[status |-> "busy"], [status |-> "idle"], [role |-> "reviewer"]}

AgentNext ==
    \/ \E agent_id \in Range(backend_pool), fields \in AgentFields :
          rpc_update_agent(SeqProc, agent_id, fields)
    \/ WriteStep(SeqProc)

AgentInit == Start0(AgentOps, 0)

AgentSpec == AgentInit /\ [][AgentNext]_vars

\* One process of the service links the two stored tasks to two providers,
\* one call after the other.
LinkOps == 3

LinkProviders == {"github", "linear"}
LinkKeys == {None, "url"}

LinkInit ==
    StartFrom(LinkOps, 0, [path \in Paths |-> NoSchema],
              [path \in Paths |->
                 IF path = "tasks"
                 THEN Stored(<<StoredTask(1, "in_progress", "codex-cli-1"),
                               StoredTask(2, "queued", None)>>)
                 ELSE NoFile])

LinkNext ==
    \/ \E id \in TaskIds \cup {"task-003"}, provider \in LinkProviders,
          key \in LinkKeys, value \in LinkValues :
          link_external(SeqProc, id, provider, key, value)
    \/ WriteStep(SeqProc)

LinkSpec == LinkInit /\ [][LinkNext]_vars

\* One process of the service suggests and assigns, one call after the
\* other, over stored agents of two pools and two stored tasks.
AssignOps == 2

AssignLabels == {NoLabels, <<>>, <<"backend">>, <<"docs">>}

AssignInit ==
    \E ids \in Arrangements({"codex-cli-1", "gemini-cli-1"}, MaxAgents),
       k \in 1 .. 2 :
       StartFrom(AssignOps, 0, [path \in Paths |-> NoSchema],
                 [path \in Paths |->
                    CASE path = "agents" ->
                           Stored([i \in DOMAIN ids |->
                                     [id |-> ids[i], status |-> "idle"]])
                      [] path = "tasks" ->
                           Stored(SubSeq(
                             <<[StoredTask(1, "in_progress", "codex-cli-1")
                                  EXCEPT !.labels = <<"backend">>],
                               [StoredTask(2, "review", None)
                                  EXCEPT !.labels = <<"docs">>]>>, 1, k))
                      [] OTHER -> NoFile])

AssignNext ==
    \/ \E labels \in AssignLabels \ {NoLabels} : suggest_assignee(SeqProc, labels)
    \/ \E id \in TaskIds, labels \in AssignLabels :
          auto_assign(SeqProc, id, labels)
    \/ auto_assign_update(SeqProc)
    \/ WriteStep(SeqProc)

AssignSpec == AssignInit /\ [][AssignNext]_vars

\* One process of the service issues every mutating call, one after the
\* other, starting with no collection file.
ChainOps == 3

ChainCall ==
    \/ create_task(SeqProc, "srv", None, <<"backend">>, None)
    \/ update_task(SeqProc, "srv", "task-001", None, "codex-cli-1")
    \/ transition_task(SeqProc, "srv", "task-001", "claimed")
    \/ link_external(SeqProc, "task-001", "github", None, "42")
    \/ acquire_lease(SeqProc, "srv", "config.js", "codex-cli-1", "task-001")
    \/ \E lock_id \in IssuedLockIds :
          release_lease(SeqProc, "srv", lock_id, "codex-cli-1")
    \/ \E status \in {"busy", "idle"} :
          rpc_update_agent(SeqProc, "codex-cli-1", [status |-> status])

ChainNext == ChainCall \/ WriteStep(SeqProc)

ChainInit == Start0(ChainOps, 0)

ChainSpec == ChainInit /\ [][ChainNext]_vars

\* No call is under way
Quiet == \A p \in Procs : pc[p] = "idle"

\* Here the clock advances between calls only; the renew runs cover a
\* clock that advances in the middle of one.
CoreNext ==
    \/ \E p \in Procs : CoreCall(p) \/ WriteStep(p)
    \/ Quiet /\ Tick(HalfTtl)

CoreInit == Start0(CoreOps, RenewTicks)

CoreSpec == CoreInit /\ [][CoreNext]_vars

----------------------------------------------------------------------------
(* Stored state, as the claims speak of it *)

StoredTasks == read_json_with_etag("tasks").data.items
StoredIds == { StoredTasks[i].id : i \in DOMAIN StoredTasks }
Terminal == {"done", "abandoned"}

\* The sequence s without its last element
Front(s) == SubSeq(s, 1, Len(s) - 1)

\* The stored leases, and what "unexpired at the clock reading t" means:
\* neither acquired_at nor heartbeat_at lies more than ttl_seconds back.
StoredLeases == read_json_with_etag("locks").data.items

Unexpired(lease, t) ==
    /\ t - lease.acquired_at * TicksPerSecond <= lease.ttl_seconds * TicksPerSecond
    /\ t - lease.heartbeat_at * TicksPerSecond <= lease.ttl_seconds * TicksPerSecond

\* Process p starts the call op in this step.
Begins(p, op) == pc[p] = "idle" /\ pc'[p] # "idle" /\ req'[p].op = op

----------------------------------------------------------------------------
(* C2: of concurrent acquire calls on the same path from distinct owners,
   exactly one returns a lock_id while the winning lease is unexpired; the
   others fail with Conflict.  Every lease of a run is unexpired until the
   clock passes the ttl, so until then no two calls on one path have both
   returned a lock_id. *)
C2_OneAcquireWins ==
    \A p, q \in Procs :
        (/\ p # q
         /\ pc[p] = "done" /\ req[p].op = "acquire_lease"
         /\ pc[q] = "done" /\ req[q].op = "acquire_lease"
         /\ req[p].path = req[q].path
         /\ req[p].owner # req[q].owner
         /\ now <= TTL_SECONDS * TicksPerSecond)
        => ~(res[p].outcome = "ok" /\ res[q].outcome = "ok")

(* C3: in every reachable state of the lease collection no two stored
   unexpired leases have the same path. *)
C3_OneActiveLeasePerPath ==
    \A i, j \in DOMAIN StoredLeases :
        (/\ i # j
         /\ Unexpired(StoredLeases[i], now)
         /\ Unexpired(StoredLeases[j], now))
        => StoredLeases[i].path # StoredLeases[j].path

\* Two unexpired leases are stored while an acquire of a leased path has
\* just been refused.
C3_Witness ==
    /\ Len(StoredLeases) = 2
    /\ \A i \in DOMAIN StoredLeases : Unexpired(StoredLeases[i], now)
    /\ \E p \in Procs :
          /\ pc[p] = "done"
          /\ req[p].op = "acquire_lease"
          /\ res[p].outcome = "Conflict"
          /\ \E i \in DOMAIN StoredLeases : StoredLeases[i].path = req[p].path

(* C9: release(lock_id, owner) succeeds only when (lock_id, owner) is the
   pair of a stored lease: a release that finds no lease of the pair, such as
   one naming a stored lock_id with another owner, fails with NotFound at once
   and leaves the lease file as it is; one that finds the pair goes on to
   write the collection without the leases of the pair. *)
C9_ReleaseNeedsExactPair ==
    [][\A p \in Procs :
          Begins(p, "release_lease") =>
            LET paired == { i \in DOMAIN StoredLeases :
                              /\ StoredLeases[i].lock_id = req'[p].lock_id
                              /\ StoredLeases[i].owner = req'[p].owner }
            IN  IF paired = {}
                THEN /\ pc'[p] = "done"
                     /\ res'[p].outcome = "NotFound"
                     /\ files' = files
                ELSE /\ pc'[p] = "check"
                     /\ wr'[p].path = "locks"
                     /\ Len(wr'[p].data.items) = Len(StoredLeases) - Cardinality(paired)
                     /\ \A k \in DOMAIN wr'[p].data.items :
                           ~(/\ wr'[p].data.items[k].lock_id = req'[p].lock_id
                             /\ wr'[p].data.items[k].owner = req'[p].owner)]_vars

\* A release naming a stored lock_id with another owner has failed with
\* NotFound and the lease is still stored.
C9_Witness ==
    \E p \in Procs :
        /\ pc[p] = "done"
        /\ req[p].op = "release_lease"
        /\ res[p].outcome = "NotFound"
        /\ \E i \in DOMAIN StoredLeases :
              /\ StoredLeases[i].lock_id = req[p].lock_id
              /\ StoredLeases[i].owner # req[p].owner

(* C10, as stated: while a lease on a path is unexpired every acquire on that
   path by another owner fails with Conflict; once ttl_seconds have elapsed
   since the lease was acquired (now - acquired_at >= ttl_seconds) with no
   renewal, the next acquire on that path by another owner is granted. *)
C10_AcquireOnceTtlElapsed ==
    [][\A p \in Procs :
          Begins(p, "acquire_lease") =>
            LET others == { i \in DOMAIN StoredLeases :
                              /\ StoredLeases[i].path = req'[p].path
                              /\ StoredLeases[i].owner # req'[p].owner }
                own == { i \in DOMAIN StoredLeases :
                           /\ StoredLeases[i].path = req'[p].path
                           /\ StoredLeases[i].owner = req'[p].owner }
            IN  /\ (\E i \in others : Unexpired(StoredLeases[i], now))
                      => (pc'[p] = "done" /\ res'[p].outcome = "Conflict")
                /\ (/\ others # {}
                    /\ own = {}
                    /\ \A i \in others :
                          /\ StoredLeases[i].heartbeat_at = StoredLeases[i].acquired_at
                          /\ now - StoredLeases[i].acquired_at * TicksPerSecond
                                >= StoredLeases[i].ttl_seconds * TicksPerSecond)
                      => pc'[p] = "check"]_vars

(* C10, amended: while a lease on a path is unexpired every acquire on that
   path by another owner fails with Conflict; once more than ttl_seconds have
   elapsed since the lease was acquired (now - acquired_at > ttl_seconds)
   with no renewal, the next acquire on that path by another owner is
   granted: it goes on to write the collection with that lease pruned and
   its own lease as the only one of the path. *)
C10_AcquireAfterTtl ==
    [][\A p \in Procs :
          Begins(p, "acquire_lease") =>
            LET others == { i \in DOMAIN StoredLeases :
                              /\ StoredLeases[i].path = req'[p].path
                              /\ StoredLeases[i].owner # req'[p].owner }
                own == { i \in DOMAIN StoredLeases :
                           /\ StoredLeases[i].path = req'[p].path
                           /\ StoredLeases[i].owner = req'[p].owner }
                new == wr'[p].data.items
            IN  /\ (\E i \in others : Unexpired(StoredLeases[i], now))
                      => (pc'[p] = "done" /\ res'[p].outcome = "Conflict")
                /\ (/\ others # {}
                    /\ own = {}
                    /\ \A i \in others :
                          /\ StoredLeases[i].heartbeat_at = StoredLeases[i].acquired_at
                          /\ now - StoredLeases[i].acquired_at * TicksPerSecond
                                > StoredLeases[i].ttl_seconds * TicksPerSecond)
                      => /\ pc'[p] = "check"
                         /\ wr'[p].path = "locks"
                         /\ new[Len(new)].path = req'[p].path
                         /\ new[Len(new)].owner = req'[p].owner
                         /\ \A k \in 1 .. Len(new) - 1 :
                               new[k].path # req'[p].path]_vars

\* An acquire has returned a lock_id for a path that another owner leased
\* more than ttl_seconds before and never renewed or released.
C10_Witness ==
    \E p \in Procs :
        /\ pc[p] = "done"
        /\ req[p].op = "acquire_lease"
        /\ res[p].outcome = "ok"
        /\ \E k \in DOMAIN journal :
              /\ journal[k].event = "file_locked"
              /\ journal[k].path = req[p].path
              /\ journal[k].owner # req[p].owner
              /\ now - journal[k].ts * TicksPerSecond > TTL_SECONDS * TicksPerSecond
        /\ \A k \in DOMAIN journal :
              journal[k].event \notin {"lease_renewed", "lease_released"}

----------------------------------------------------------------------------
\* The status state machine as a set of (current, next) pairs
LifecycleTable ==
    { <<"queued", "claimed">>, <<"queued", "in_progress">>, <<"queued", "abandoned">>,
      <<"claimed", "in_progress">>, <<"claimed", "blocked">>, <<"claimed", "abandoned">>,
      <<"in_progress", "review">>, <<"in_progress", "blocked">>, <<"in_progress", "failed">>,
      <<"review", "approved">>, <<"review", "changes_requested">>, <<"review", "failed">>,
      <<"changes_requested", "in_progress">>, <<"changes_requested", "failed">>,
      <<"approved", "merging">>,
      <<"merging", "done">>, <<"merging", "failed">>,
      <<"blocked", "in_progress">>, <<"blocked", "abandoned">>,
      <<"failed", "in_progress">>, <<"failed", "abandoned">> }

(* C4: for an existing task and a recognised status s, with no concurrent
   writer, transition(id, s) succeeds iff s is in the allowed-next set of the
   task's current status, and then the stored status is s; otherwise it fails
   with InvalidTransition and the stored status stays (queued -> done fails,
   queued -> in_progress succeeds). *)
C4_TransitionIffAllowed ==
    \A p \in Procs :
        LET i == FindTask(StoredTasks, req[p].id)
        IN  (/\ pc[p] = "done"
             /\ req[p].op = "transition_task"
             /\ In(req[p].new_status, ALLOWED_STATUSES)
             /\ i # 0)
            => IF res[p].outcome = "ok"
               THEN /\ StoredTasks[i].status = req[p].new_status
                    /\ <<journal[Len(journal)].old_status, req[p].new_status>>
                          \in LifecycleTable
               ELSE /\ res[p].outcome = "InvalidTransition"
                    /\ <<StoredTasks[i].status, req[p].new_status>>
                          \notin LifecycleTable

\* A transition queued -> in_progress has succeeded and is stored.
C4_Witness ==
    \E p \in Procs :
        /\ pc[p] = "done"
        /\ req[p].op = "transition_task"
        /\ req[p].new_status = "in_progress"
        /\ res[p].outcome = "ok"
        /\ journal[Len(journal)].old_status = "queued"
        /\ StoredTasks[FindTask(StoredTasks, req[p].id)].status = "in_progress"

(* C1: the accepted writes of a collection file are totally ordered and each
   was computed from the content the preceding accepted write installed: when
   os.replace installs a writer's content, the file still holds the bytes
   whose ETag the writer read (no lost update). *)
C1_NoLostUpdate ==
    [][\A p \in Procs :
          (pc[p] = "replace" /\ pc'[p] = "reread")
          => read_json_with_etag(wr[p].path).etag = wr[p].expected_etag]_vars

(* C5: once a task's status is done or abandoned, no operation of the task
   registry changes that task's status. *)
C5_TerminalStatusIsFinal ==
    [][\A i \in DOMAIN StoredTasks :
          LET after == read_file(files'["tasks"]).data.items
          IN  (/\ StoredTasks[i].status \in Terminal
               /\ i \in DOMAIN after
               /\ after[i].id = StoredTasks[i].id)
              => after[i].status = StoredTasks[i].status]_vars

(* C6: a create with an explicit id that is already stored fails and leaves
   the task collection unchanged: no such create gets its write installed. *)
C6_CreateExistingIdFails ==
    \A p \in Procs :
        (/\ req[p].op = "create_task"
         /\ req[p].id # None
         /\ pc[p] \in {"reread", "emit"})
        => FindTask(Front(wr[p].data.items), req[p].id) = 0

(* C7: no two stored tasks have the same id. *)
C7_TaskIdsUnique ==
    \A i, j \in DOMAIN StoredTasks :
        i # j => StoredTasks[i].id # StoredTasks[j].id

----------------------------------------------------------------------------
(* StateStore and EventLog *)

\* The collection a call reads when it starts
CollectionOf(op) ==
    IF op \in {"acquire_lease", "renew_lease", "release_lease"} THEN "locks"
    ELSE IF op = "update_agent" THEN "agents"
    ELSE "tasks"

\* Process p reads a collection file in this step: at the start of a call,
\* and twice in write_json_atomic.  The file it reads:
Reads(p) ==
    /\ pc'[p] # pc[p]
    /\ \/ pc[p] = "idle" /\ req'[p].op # "emit_event"
       \/ pc[p] \in {"check", "reread"}

ReadPathOf(p) == IF pc[p] = "idle" THEN CollectionOf(req'[p].op) ELSE wr[p].path

(* C18: under any interleaving of writers and readers of a collection file,
   every read returns the complete content of some write call or the
   initial content; no reader gets bytes that are only part of a record. *)
C18_NoPartialRead ==
    [][\A p \in Procs :
          Reads(p) => \/ ~files[ReadPathOf(p)].exists
                      \/ Parses(files[ReadPathOf(p)].raw)]_vars

----------------------------------------------------------------------------
(* Lease expiry and renewal *)

\* The stored leases of the path, by index
LeasesOn(path) == { i \in DOMAIN StoredLeases : StoredLeases[i].path = path }

\* More than ttl_seconds lie between the lease's acquired_at and t.
PastDeadline(lease, t) ==
    t - lease.acquired_at * TicksPerSecond > lease.ttl_seconds * TicksPerSecond

(* C11: no sequence of successful renew calls keeps a lease alive past its
   acquisition deadline: an acquire of a path all of whose stored leases have
   now - acquired_at > ttl_seconds, however recent their heartbeat_at, is not
   refused; it drops those leases and goes on to write the collection with
   its own lease as the only one of the path. *)
C11_RenewCannotOutliveDeadline ==
    [][\A p \in Procs :
          (/\ Begins(p, "acquire_lease")
           /\ LeasesOn(req'[p].path) # {}
           /\ \A i \in LeasesOn(req'[p].path) : PastDeadline(StoredLeases[i], now))
          => LET new == wr'[p].data.items
             IN  /\ pc'[p] = "check"
                 /\ wr'[p].path = "locks"
                 /\ new[Len(new)].path = req'[p].path
                 /\ new[Len(new)].owner = req'[p].owner
                 /\ new[Len(new)].lock_id = wr'[p].ret
                 /\ \A k \in 1 .. Len(new) - 1 : new[k].path # req'[p].path]_vars

\* An acquire has returned a lock_id for a path whose earlier lease, of
\* another owner, was past its deadline although a renew had given it a
\* heartbeat less than ttl_seconds old; the renewed lease is no longer stored.
C11_Witness ==
    \E p \in Procs :
        /\ pc[p] = "done"
        /\ req[p].op = "acquire_lease"
        /\ res[p].outcome = "ok"
        /\ \E a, r \in DOMAIN journal :
              /\ journal[a].event = "file_locked"
              /\ journal[a].path = req[p].path
              /\ journal[a].owner # req[p].owner
              /\ now - journal[a].ts * TicksPerSecond > TTL_SECONDS * TicksPerSecond
              /\ journal[r].event = "lease_renewed"
              /\ journal[r].lock_id = journal[a].lock_id
              /\ now - journal[r].ts * TicksPerSecond <= TTL_SECONDS * TicksPerSecond
              /\ <<journal[a].lock_id, journal[a].owner>> \in pruned
        /\ \E i \in DOMAIN StoredLeases : StoredLeases[i].lock_id = res[p].ret

(* C12: after a lease has been pruned because now - acquired_at >
   ttl_seconds, every later renew or release naming its (lock_id, owner)
   fails with NotFound: no stored lease has the pair of a pruned lease, which
   is what renew and release look for. *)
C12_PrunedLeaseStaysGone ==
    \A pair \in pruned :
        /\ FindLease(StoredLeases, pair[1], pair[2]) = 0
        /\ Released(StoredLeases, pair[1], pair[2]) = StoredLeases

----------------------------------------------------------------------------
(* The lifecycle scenario *)

\* The kinds of the journal's events, in order
Kinds == [k \in DOMAIN journal |-> journal[k].event]

\* The scenario's calls have all returned: task-001 is stored as done and the
\* process is not inside a call.
ScenarioOver ==
    /\ pc[SeqProc] = "idle"
    /\ Len(StoredTasks) = 1
    /\ StoredTasks[1].id = "task-001"
    /\ StoredTasks[1].status = "done"

\* The transition to done asked for right after the one to in_progress is
\* rejected and leaves no event.
RejectedEarlyDone ==
    (/\ pc[SeqProc] = "done"
     /\ req[SeqProc].op = "transition_task"
     /\ req[SeqProc].new_status = "done"
     /\ nops = 2)
    => /\ res[SeqProc].outcome = "InvalidTransition"
       /\ Kinds = <<"task_created", "status_changed">>

(* C13, as stated: from an empty task collection and an empty journal, the
   sequence create task-001; transition to in_progress (ok); to done
   (rejected with InvalidTransition); to review, approved, merging and done
   (all ok) leaves the journal with exactly one task_created event and four
   status_changed events, in that order. *)
C13_OneCreatedFourChanged ==
    /\ RejectedEarlyDone
    /\ ScenarioOver =>
          Kinds = <<"task_created", "status_changed", "status_changed",
                    "status_changed", "status_changed">>

(* C13, amended: the same sequence leaves the journal with exactly one
   task_created event and five status_changed events, in that order, one for
   each accepted transition: queued -> in_progress -> review -> approved ->
   merging -> done. *)
C13_OneCreatedFiveChanged ==
    /\ RejectedEarlyDone
    /\ ScenarioOver =>
          /\ Kinds = <<"task_created", "status_changed", "status_changed",
                       "status_changed", "status_changed", "status_changed">>
          /\ journal[1].task = "task-001"
          /\ \A k \in 2 .. 6 :
                /\ journal[k].task = "task-001"
                /\ journal[k].new_status = ScenarioStatuses[k - 1]
                /\ journal[k].old_status =
                      IF k = 2 THEN "queued" ELSE ScenarioStatuses[k - 2]

\* The scenario has run to its end.
C13_Witness == ScenarioOver /\ nops = ScenarioOps

\* The operations that write a collection, and the kind of event each emits
MutatingOps ==
    {"create_task", "update_task", "transition_task", "link_external",
     "acquire_lease", "renew_lease", "release_lease", "update_agent"}

KindOf(op) ==
    CASE op = "create_task" -> "task_created"
      [] op = "update_task" -> "task_updated"
      [] op = "transition_task" -> "status_changed"
      [] op = "link_external" -> "task_linked"
      [] op = "acquire_lease" -> "file_locked"
      [] op = "renew_lease" -> "lease_renewed"
      [] op = "release_lease" -> "lease_released"
      [] op = "update_agent" -> "agent_updated"
      [] OTHER -> "none"

\* The call of p ends in this step, and with success
Completes(p) ==
    pc[p] # "done" /\ pc'[p] = "done" /\ res'[p].outcome = "ok"

\* The step appends exactly one event, of the kind `kind`
AppendsOne(kind) ==
    /\ Len(journal') = Len(journal) + 1
    /\ SubSeq(journal', 1, Len(journal)) = journal
    /\ journal'[Len(journal')].event = kind

C14_OneReplaceThenOneEvent ==
    [][ /\ \A p \in Procs :
             Completes(p) /\ req[p].op \in MutatingOps =>
                /\ pc[p] = "emit"
                /\ "installed" \in DOMAIN wr[p]
                /\ AppendsOne(KindOf(req[p].op))
        /\ journal' # journal => \E p \in Procs : Completes(p) ]_vars

\* The outcomes of a call the service or the tool rejects
Rejections == {"NotFound", "InvalidStatus", "InvalidTransition", "Conflict"}

\* The call of p is rejected in this step
Rejected(p) ==
    res'[p].outcome \in Rejections /\ res[p].outcome \notin Rejections

\* C15: the step in which a call fails with NotFound, InvalidStatus,
\* InvalidTransition or Conflict changes no collection file and no journal
\* line, comes before any write step of the call, and ends the call; the
\* process then returns to its caller without running the call again.
C15_RejectedLeavesNoTrace ==
    [][ \A p \in Procs :
          /\ Rejected(p) =>
                /\ files' = files
                /\ journal' = journal
                /\ pc[p] \in {"idle", "check"}
                /\ pc'[p] = "done"
          /\ pc[p] = "done" /\ pc'[p] # "done" =>
                pc'[p] = "idle" /\ req'[p] = NoReq ]_vars

\* An acquire was rejected for an active lease of its path while the file
\* holds another lease that has expired: the prune was not written.
C15_Witness ==
    \E p \in Procs :
        /\ pc[p] = "done"
        /\ req[p].op = "acquire_lease"
        /\ res[p].outcome = "Conflict"
        /\ ActiveLeaseOn(Prune(StoredLeases, now), req[p].path)
        /\ \E i \in DOMAIN StoredLeases : ~Fresh(StoredLeases[i], now)

\* C16: a write step of p, its comparison or its os.replace, that finds
\* stored bytes whose ETag is not the one p supplied ends the call with
\* Conflict and changes no file.
C16_StaleWriteFailsWithConflict ==
    [][ \A p \in Procs :
          (/\ pc[p] \in {"check", "replace"}
           /\ pc'[p] # pc[p]
           /\ read_json_with_etag(wr[p].path).etag # wr[p].expected_etag)
          => res'[p].outcome = "Conflict" /\ files' = files ]_vars

C19_JournalAppendOnly ==
    [][ /\ Len(journal') >= Len(journal)
        /\ SubSeq(journal', 1, Len(journal)) = journal ]_vars

\* Three calls of three kinds have appended their events.
C19_Witness ==
    /\ Len(journal) = 3
    /\ Cardinality({ journal[i].event : i \in DOMAIN journal }) = 3

\* j is a merge of a and b that keeps the order of each
RECURSIVE IsInterleaving(_, _, _)
IsInterleaving(j, a, b) ==
    IF j = <<>> THEN a = <<>> /\ b = <<>>
    ELSE \/ a # <<>> /\ Head(a) = Head(j) /\ IsInterleaving(Tail(j), Tail(a), b)
         \/ b # <<>> /\ Head(b) = Head(j) /\ IsInterleaving(Tail(j), a, Tail(b))

\* C20: the journal is a merge of the processes' events in which the events
\* of each process stand in the order in which it completed its calls.
C20_PerProcessOrder == IsInterleaving(journal, completed["p1"], completed["p2"])

\* One process completed two calls and the other completed one in between.
C20_Witness ==
    \E p \in Procs, q \in Procs :
        /\ p # q
        /\ Len(completed[p]) = 2
        /\ Len(completed[q]) = 1
        /\ journal = <<completed[p][1], completed[q][1], completed[p][2]>>
        /\ Cardinality({ journal[i] : i \in DOMAIN journal }) = 3

\* The positions of a call inside write_json_atomic and up to its event
InWrite == {"check", "tmp", "write", "replace", "reread", "emit"}

\* C21: with a schema in place, the step in which a call of the service
\* fails with ValidationError is the handler's first, before
\* write_json_atomic, and changes no file and no journal line; and a call
\* of the service is inside write_json_atomic only with a document that
\* conforms to the schema.
C21_ValidationBeforeWrite ==
    [][ \A p \in Procs :
          /\ (res'[p].outcome = "ValidationError"
                 /\ res[p].outcome # "ValidationError") =>
                /\ pc[p] = "idle" /\ pc'[p] = "done"
                /\ files' = files /\ tmp' = tmp /\ journal' = journal
          /\ (pc'[p] \in InWrite /\ req'[p].fe = "srv"
                 /\ req'[p].op # "emit_event") =>
                Conforms(wr'[p].data, limits.schema[wr'[p].path]) ]_vars

\* A release was refused by the schema and the lease is still stored.
C21_Witness ==
    \E p \in Procs :
        /\ pc[p] = "done"
        /\ req[p].op = "release_lease"
        /\ res[p].outcome = "ValidationError"
        /\ FindLease(StoredLeases, req[p].lock_id, req[p].owner) # 0

\* C22: when the os.replace of an acquire has installed its document, the
\* lock file holds no lease, on any path, whose acquired_at or heartbeat_at
\* lies more than ttl_seconds before the time at which the acquire ran.
C22_AcquireLeavesNoExpiredLease ==
    [][ \A p \in Procs :
          (/\ req[p].op = "acquire_lease"
           /\ pc[p] = "replace" /\ pc'[p] = "reread") =>
             LET after == read_file(files'["locks"]).data.items
             IN  \A i \in DOMAIN after :
                   /\ TicksSince(req[p].at, after[i].acquired_at)
                        <= after[i].ttl_seconds * TicksPerSecond
                   /\ TicksSince(req[p].at, after[i].heartbeat_at)
                        <= after[i].ttl_seconds * TicksPerSecond ]_vars

\* An acquire has installed a document from which it dropped an expired
\* lease, next to a lease that it kept.
C22_Witness ==
    \E p \in Procs :
        /\ req[p].op = "acquire_lease"
        /\ pc[p] = "reread"
        /\ Dropped(p) # {}
        /\ Len(StoredLeases) = 2

\* C23: a call under way can always take its next step, whatever the
\* other process is doing, and it ends, with a result or an error; an
\* acquire of a path that another owner holds does not wait for the lease.
C23_EveryCallCompletes ==
    /\ [](\A p \in Procs : pc[p] # "idle" => ENABLED WriteStep(p))
    /\ \A p \in Procs : (pc[p] \notin {"idle", "done"}) ~> (pc[p] = "done")

\* An acquire has ended with Conflict while the lease of another owner on
\* its path is stored and live.
C23_Witness ==
    \E p \in Procs :
        /\ pc[p] = "done"
        /\ req[p].op = "acquire_lease"
        /\ res[p].outcome = "Conflict"
        /\ \E i \in DOMAIN StoredLeases :
              /\ StoredLeases[i].path = req[p].path
              /\ StoredLeases[i].owner # req[p].owner
              /\ Fresh(StoredLeases[i], now)

StoredAgents == read_json_with_etag("agents").data.items

\* The suggest call of p has returned a
Suggests(p, a) ==
    /\ pc[p] = "done"
    /\ req[p].op = "suggest_assignee"
    /\ res[p].outcome = "ok"
    /\ res[p].ret = a

\* The number of stored tasks in progress that are assigned to a
InProgressOf(a) ==
    Cardinality({ i \in DOMAIN StoredTasks :
                    /\ StoredTasks[i].status = "in_progress"
                    /\ StoredTasks[i].assignee = a })

\* a has the least load of the members of the sequence among, and no
\* member before it has as little
LeastLoadedFirst(a, among) ==
    \E i \in DOMAIN among :
        /\ among[i] = a
        /\ \A j \in DOMAIN among : InProgressOf(a) <= InProgressOf(among[j])
        /\ \A j \in 1 .. i - 1 : InProgressOf(among[j]) > InProgressOf(a)

\* C24 as stated: suggest returns the member of the selected pool with the
\* least load, of several the first in the pool's order, and none only when
\* the pool has no member.
C24_LeastLoadedOfPool ==
    \A p \in Procs, a \in AgentIds \cup {None} :
        Suggests(p, a) =>
            IF PoolOf(req[p].labels) = <<>> THEN a = None
            ELSE LeastLoadedFirst(a, PoolOf(req[p].labels))

\* C24 as the code has it: suggest returns, of the stored agents that are
\* members of the selected pool, the one with the least load, of several
\* the first in the order of the agent collection, and none when no stored
\* agent is a member of the pool.
C24_LeastLoadedOfRegistered ==
    \A p \in Procs, a \in AgentIds \cup {None} :
        Suggests(p, a) =>
            LET among == Candidates(StoredAgents, PoolOf(req[p].labels))
            IN  IF among = <<>> THEN a = None
                ELSE LeastLoadedFirst(a, among)

\* suggest has returned the second member of the backend pool, stored
\* before the first, both with one task in progress.
C24_Witness ==
    /\ Suggests(SeqProc, "codex-cli-2")
    /\ Candidates(StoredAgents, backend_pool) = <<"codex-cli-2", "codex-cli-1">>
    /\ InProgressOf("codex-cli-1") = 1
    /\ InProgressOf("codex-cli-2") = 1

\* C25: when the labels match no routing keyword, the candidates are the
\* stored agents of all three pools, so that suggest returns the least
\* loaded of them, and none only when no member of any pool is stored.
C25_FallbackIsUnionOfAllPools ==
    \A p \in Procs, a \in AgentIds \cup {None} :
        (/\ Suggests(p, a)
         /\ {"backend", "devops", "ci", "frontend", "e2e", "docs", "review"}
               \cap Range(req[p].labels) = {}) =>
            LET among == Candidates(StoredAgents, PoolOf_AllPools(req[p].labels))
            IN  IF among = <<>> THEN a = None
                ELSE LeastLoadedFirst(a, among)

\* The eleven statuses
Recognized ==
    {"queued", "claimed", "in_progress", "review", "changes_requested",
     "approved", "merging", "done", "blocked", "failed", "abandoned"}

\* What transition(id, new_status) must come to on the stored tasks
TransitionOutcome(id, new_status) ==
    IF new_status \notin Recognized THEN "InvalidStatus"
    ELSE IF id \notin StoredIds THEN "NotFound"
    ELSE IF <<StoredTasks[FindTask(StoredTasks, id)].status, new_status>>
               \notin LifecycleTable
    THEN "InvalidTransition"
    ELSE "ok"

\* C26: the step in which a transition starts decides its outcome, in the
\* order InvalidStatus, NotFound, InvalidTransition: it ends the call with
\* the first of these that applies, and otherwise goes on to the write,
\* after which the call, alone on the file, ends with success.
C26_TransitionOutcomeOrder ==
    [][ \A p \in Procs :
          /\ (pc[p] = "idle" /\ req'[p].op = "transition_task") =>
                LET due == TransitionOutcome(req'[p].id, req'[p].new_status)
                IN  IF due = "ok"
                    THEN pc'[p] = "check" /\ res'[p].outcome = "pending"
                    ELSE pc'[p] = "done" /\ res'[p].outcome = due
          /\ (req[p].op = "transition_task" /\ pc[p] = "emit") =>
                pc'[p] = "done" /\ res'[p].outcome = "ok" ]_vars

\* A transition with an unrecognized status of a task that is not stored
\* has ended with InvalidStatus.
C26_Witness ==
    \E p \in Procs :
        /\ pc[p] = "done"
        /\ req[p].op = "transition_task"
        /\ req[p].new_status \notin Recognized
        /\ req[p].id \notin StoredIds
        /\ res[p].outcome = "InvalidStatus"

\* The ids of the agents of a document, with their places
AgentIdsOf(agents) == { agents[i].id : i \in DOMAIN agents }

\* C27: a step that changes the agent collection is the write of an upsert
\* of some id with some fields; after it every id occurs once and no id is
\* gone; if the id was stored, its entry has the fields passed and keeps
\* its other fields and its place, and all other entries are as they were;
\* if it was not, one entry of the id with the fields is added at the end.
C27_UpsertKeepsAgents ==
    [][ files'["agents"] # files["agents"] =>
          LET before == StoredAgents
              after == read_file(files'["agents"]).data.items
          IN  \E p \in Procs :
                /\ req[p].op = "update_agent"
                /\ \A i, j \in DOMAIN after : after[i].id = after[j].id => i = j
                /\ AgentIdsOf(before) \subseteq AgentIdsOf(after)
                /\ IF req[p].id \in AgentIdsOf(before)
                   THEN /\ Len(after) = Len(before)
                        /\ \A i \in DOMAIN before :
                              IF before[i].id = req[p].id
                              THEN /\ after[i].id = req[p].id
                                   /\ \A k \in DOMAIN req[p].fields :
                                         after[i][k] = req[p].fields[k]
                                   /\ \A k \in DOMAIN before[i] \ DOMAIN req[p].fields :
                                         after[i][k] = before[i][k]
                                   /\ DOMAIN after[i] =
                                         DOMAIN before[i] \cup DOMAIN req[p].fields
                              ELSE after[i] = before[i]
                   ELSE /\ Len(after) = Len(before) + 1
                        /\ SubSeq(after, 1, Len(before)) = before
                        /\ after[Len(after)].id = req[p].id
                        /\ \A k \in DOMAIN req[p].fields :
                              after[Len(after)][k] = req[p].fields[k] ]_vars

\* Two agents are stored and the first, upserted again with another field,
\* has both its fields.
C27_Witness ==
    /\ Len(StoredAgents) = 2
    /\ DOMAIN StoredAgents[1] = {"id", "status", "role"}
    /\ pc[SeqProc] = "done"
    /\ req[SeqProc].op = "update_agent"
    /\ req[SeqProc].id = StoredAgents[1].id

\* A step of p that starts an update passing a status
StartsStatusUpdate(p) ==
    /\ pc[p] = "idle"
    /\ req'[p].op = "update_task"
    /\ req'[p].status # None

\* The starting step of an update whose outcome is due: a failure ends the
\* call there and leaves files and journal alone, a success goes on to its
\* write.
UpdateStartsWith(p, due) ==
    IF due = "ok"
    THEN pc'[p] = "check" /\ res'[p].outcome = "pending"
    ELSE /\ pc'[p] = "done" /\ res'[p].outcome = due
         /\ files' = files /\ journal' = journal

\* The write of an update passing a status stores that status in the task
\* of the id and leaves the other tasks as they are; the call then ends
\* with success.
UpdateStoresStatus(p) ==
    /\ (req[p].op = "update_task" /\ req[p].status # None
          /\ pc[p] = "replace" /\ pc'[p] = "reread") =>
            LET before == StoredTasks
                after == read_file(files'["tasks"]).data.items
                i == FindTask(before, req[p].id)
            IN  /\ Len(after) = Len(before)
                /\ after[i].status = req[p].status
                /\ \A j \in DOMAIN before : j # i => after[j] = before[j]
    /\ (req[p].op = "update_task" /\ pc[p] = "emit") =>
            pc'[p] = "done" /\ res'[p].outcome = "ok"

\* C28 as stated: an update passing a status fails with InvalidStatus when
\* the status is not a recognized one, whether or not the task is stored,
\* fails with NotFound when the status is recognized and the task is not
\* stored, and otherwise succeeds and stores the status.
C28_UnrecognizedStatusIsInvalidStatus ==
    [][ \A p \in Procs :
          /\ StartsStatusUpdate(p) =>
                UpdateStartsWith(p,
                    IF req'[p].status \notin Recognized THEN "InvalidStatus"
                    ELSE IF req'[p].id \notin StoredIds THEN "NotFound"
                    ELSE "ok")
          /\ UpdateStoresStatus(p) ]_vars

\* C28, amended: an update passing a status succeeds iff the task is stored
\* and the status is a recognized one, and then stores that status whatever
\* the task's status is; it fails with NotFound when the task is not stored,
\* whatever the status, and with InvalidStatus when the task is stored and
\* the status is not a recognized one, and a failure changes nothing.
C28_UpdateStoresAnyRecognizedStatus ==
    [][ \A p \in Procs :
          /\ StartsStatusUpdate(p) =>
                UpdateStartsWith(p,
                    IF req'[p].id \notin StoredIds THEN "NotFound"
                    ELSE IF req'[p].status \notin Recognized THEN "InvalidStatus"
                    ELSE "ok")
          /\ UpdateStoresStatus(p) ]_vars

\* An update has stored a status the transition table does not allow from
\* the status the task had: a queued task is done.
C28_Witness ==
    /\ pc[SeqProc] = "done"
    /\ req[SeqProc].op = "update_task"
    /\ req[SeqProc].status = "done"
    /\ res[SeqProc].outcome = "ok"
    /\ \E i \in DOMAIN StoredTasks :
          /\ StoredTasks[i].id = req[SeqProc].id
          /\ StoredTasks[i].status = "done"
    /\ \E i \in DOMAIN journal :
          /\ journal[i].event = "task_created"
          /\ journal[i].task = req[SeqProc].id
    /\ \A i \in DOMAIN journal : journal[i].event # "status_changed"
    /\ ~In("done", allowed_next("queued"))

\* C29: the write of a create installs the tasks that were stored, each as
\* it was and in the same order, followed by one new task whose status is
\* queued and whose dependencies, blockers and dod are empty, whatever id
\* and labels the caller passed and whichever front end was called.
C29_CreateAppendsQueuedTask ==
    [][ \A p \in Procs :
          (req[p].op = "create_task" /\ pc[p] = "replace" /\ pc'[p] = "reread") =>
              LET before == StoredTasks
                  after == read_file(files'["tasks"]).data.items
              IN  /\ Len(after) = Len(before) + 1
                  /\ SubSeq(after, 1, Len(before)) = before
                  /\ after[Len(after)].status = "queued"
                  /\ after[Len(after)].dependencies = <<>>
                  /\ after[Len(after)].blockers = <<>>
                  /\ after[Len(after)].dod = <<>> ]_vars

\* A create passing an id and a label has ended with success after a task
\* that is no longer queued: two tasks are stored, the earlier one as it was.
C29_Witness ==
    /\ pc[SeqProc] = "done"
    /\ req[SeqProc].op = "create_task"
    /\ req[SeqProc].id # None
    /\ req[SeqProc].labels # <<>>
    /\ res[SeqProc].outcome = "ok"
    /\ Len(StoredTasks) = 2
    /\ StoredTasks[1].status # "queued"
    /\ StoredTasks[2].id = req[SeqProc].id
    /\ StoredTasks[2].status = "queued"
    /\ StoredTasks[2].dod = <<>>

\* C30: a renew that goes on to its write has built the list of leases it
\* read with one change, the heartbeat_at of the first lease of its
\* (lock_id, owner) set to the present second: that lease's other fields,
\* every other lease, the number of leases and their order are as read;
\* its os.replace installs that list and the call then ends with success.
C30_RenewChangesOnlyHeartbeat ==
    [][ \A p \in Procs :
          /\ (pc[p] = "idle" /\ req'[p].op = "renew_lease" /\ pc'[p] = "check") =>
                LET before == StoredLeases
                    doc == wr'[p].data.items
                    i == FindLease(before, req'[p].lock_id, req'[p].owner)
                IN  /\ i # 0
                    /\ Len(doc) = Len(before)
                    /\ \A j \in DOMAIN before : j # i => doc[j] = before[j]
                    /\ doc[i] = [before[i] EXCEPT !.heartbeat_at = now_iso]
          /\ (req[p].op = "renew_lease" /\ pc[p] = "replace" /\ pc'[p] = "reread") =>
                read_file(files'["locks"]).data = wr[p].data
          /\ (req[p].op = "renew_lease" /\ pc[p] = "emit" /\ pc'[p] # "emit") =>
                pc'[p] = "done" /\ res'[p].outcome = "ok" ]_vars

\* A renew has ended with success while the other agent's lease is stored:
\* the renewed lease has a heartbeat_at later than its acquired_at, and the
\* other lease is as it was acquired.
C30_Witness ==
    \E p \in Procs :
        /\ pc[p] = "done"
        /\ req[p].op = "renew_lease"
        /\ res[p].outcome = "ok"
        /\ Len(StoredLeases) = 2
        /\ \E i, j \in DOMAIN StoredLeases :
              /\ StoredLeases[i].lock_id = req[p].lock_id
              /\ StoredLeases[i].owner = req[p].owner
              /\ StoredLeases[i].heartbeat_at > StoredLeases[i].acquired_at
              /\ StoredLeases[j].owner # req[p].owner
              /\ StoredLeases[j].heartbeat_at = StoredLeases[j].acquired_at

\* The key a link call stores under: "id" when none is passed
LinkKeyOf(r) == IF r.key = None THEN "id" ELSE r.key

\* C31: the write of a link installs the stored tasks with one change, on
\* the first task of the id: external_ids[provider][key] is the value
\* passed (whether or not the key was there), the other keys of that
\* provider and the other providers are as they were, and of the task's
\* other fields only updated_at may differ; every other task is as it was;
\* the call then ends with success.
C31_LinkSetsOneKey ==
    [][ \A p \in Procs :
          /\ (req[p].op = "link_external" /\ pc[p] = "replace"
                /\ pc'[p] = "reread") =>
                LET before == StoredTasks
                    after == read_file(files'["tasks"]).data.items
                    i == FindTask(before, req[p].id)
                    old == before[i].external_ids
                    new == after[i].external_ids
                    pr == req[p].provider
                    k == LinkKeyOf(req[p])
                IN  /\ i # 0
                    /\ Len(after) = Len(before)
                    /\ \A j \in DOMAIN before : j # i => after[j] = before[j]
                    /\ DOMAIN after[i] = DOMAIN before[i]
                    /\ \A f \in DOMAIN before[i] \ {"external_ids", "updated_at"} :
                          after[i][f] = before[i][f]
                    /\ DOMAIN new = DOMAIN old \cup {pr}
                    /\ \A o \in DOMAIN old \ {pr} : new[o] = old[o]
                    /\ new[pr][k] = req[p].value
                    /\ DOMAIN new[pr] =
                          (IF pr \in DOMAIN old THEN DOMAIN old[pr] ELSE {})
                             \cup {k}
                    /\ \A o \in DOMAIN new[pr] \ {k} : new[pr][o] = old[pr][o]
          /\ (req[p].op = "link_external" /\ pc[p] = "emit"
                /\ pc'[p] # "emit") =>
                pc'[p] = "done" /\ res'[p].outcome = "ok" ]_vars

\* A link has replaced the value of a key that was there, on a task that
\* has another key of that provider and another provider, next to a task
\* with no link.
C31_Witness ==
    /\ pc[SeqProc] = "done"
    /\ req[SeqProc].op = "link_external"
    /\ res[SeqProc].outcome = "ok"
    /\ req[SeqProc].id = "task-001"
    /\ req[SeqProc].provider = "github"
    /\ req[SeqProc].key = None
    /\ req[SeqProc].value = "43"
    /\ StoredTasks[1].external_ids =
          ("github" :> ("id" :> "43" @@ "url" :> "42"))
    /\ StoredTasks[1].status = "in_progress"
    /\ StoredTasks[1].assignee = "codex-cli-1"
    /\ StoredTasks[2].external_ids = <<>>
    /\ Len(journal) = 3

\* What suggest and auto_assign always do: a suggest step and the first
\* step of auto_assign leave files and journal alone, and with no agent
\* suggested auto_assign ends there; the write of auto_assign installs the
\* stored tasks with the first task of the id differing at most in
\* assignee and updated_at, the assignee being the agent suggested; only
\* the step that ends a successful auto_assign appends to the journal, one
\* task_updated event of the task.
AssignFrame(p) ==
    /\ (pc[p] = "idle" /\ req'[p].op \in {"suggest_assignee", "auto_assign"}) =>
          /\ files' = files /\ journal' = journal /\ tmp' = tmp
          /\ req'[p].op = "suggest_assignee" => pc'[p] = "done"
          /\ (req'[p].op = "auto_assign" /\ req'[p].assignee = None) =>
                /\ pc'[p] = "done"
                /\ res'[p] = [outcome |-> "ok",
                              ret |-> [assignee |-> None, updated |-> FALSE]]
          /\ (req'[p].op = "auto_assign" /\ req'[p].assignee # None) =>
                pc'[p] = "update"
    /\ (req[p].op = "auto_assign" /\ pc[p] # "emit") => journal' = journal
    /\ (req[p].op = "auto_assign" /\ pc[p] # "replace") => files' = files
    /\ (req[p].op = "auto_assign" /\ pc[p] = "replace" /\ pc'[p] = "reread") =>
          LET before == StoredTasks
              after == read_file(files'["tasks"]).data.items
              i == FindTask(before, req[p].id)
          IN  /\ i # 0
              /\ Len(after) = Len(before)
              /\ \A j \in DOMAIN before : j # i => after[j] = before[j]
              /\ DOMAIN after[i] = DOMAIN before[i]
              /\ \A f \in DOMAIN before[i] \ {"assignee", "updated_at"} :
                    after[i][f] = before[i][f]
              /\ after[i].assignee = req[p].assignee
    /\ (req[p].op = "auto_assign" /\ pc[p] = "emit" /\ pc'[p] # "emit") =>
          /\ pc'[p] = "done"
          /\ res'[p] = [outcome |-> "ok",
                        ret |-> [assignee |-> req[p].assignee, updated |-> TRUE]]
          /\ Len(journal') = Len(journal) + 1
          /\ journal'[Len(journal')].event = "task_updated"
          /\ journal'[Len(journal')].task = req[p].id

\* C32 as stated: besides the above, whenever suggest returned an agent
\* auto_assign goes on to its write and its one task_updated event.
C32_AssignsWheneverSuggested ==
    [][ \A p \in Procs :
          /\ AssignFrame(p)
          /\ (pc[p] = "update" /\ pc'[p] # "update") => pc'[p] = "check" ]_vars

\* C32, amended: besides the above, when suggest returned an agent
\* auto_assign goes on to its write and its one task_updated event if the
\* task is stored, and fails with NotFound, changing and appending nothing,
\* if it is not.
C32_AssignsStoredTaskOnly ==
    [][ \A p \in Procs :
          /\ AssignFrame(p)
          /\ (pc[p] = "update" /\ pc'[p] # "update") =>
                IF req[p].id \in StoredIds
                THEN pc'[p] = "check"
                ELSE /\ pc'[p] = "done" /\ res'[p].outcome = "NotFound"
                     /\ files' = files /\ journal' = journal ]_vars

\* An auto_assign passing no labels has given the second task, in review
\* and unassigned, to the agent of the docs pool: the task is still in
\* review, the first task is as it was, and the journal has the one event.
C32_Witness ==
    /\ pc[SeqProc] = "done"
    /\ req[SeqProc].op = "auto_assign"
    /\ req[SeqProc].id = "task-002"
    /\ req[SeqProc].labels = NoLabels
    /\ res[SeqProc].outcome = "ok"
    /\ res[SeqProc].ret = [assignee |-> "gemini-cli-1", updated |-> TRUE]
    /\ Len(StoredTasks) = 2
    /\ StoredTasks[2].assignee = "gemini-cli-1"
    /\ StoredTasks[2].status = "review"
    /\ StoredTasks[1].assignee = "codex-cli-1"
    /\ Len(journal) = 1

\* The lease is past its ttl at the clock reading t (in ticks)
PastTtl(lease, t) ==
    t - lease.acquired_at * TicksPerSecond > lease.ttl_seconds * TicksPerSecond

\* C33: a renew or release that starts while a stored lease has its
\* (lock_id, owner) goes on to its write, whether or not that lease is past
\* its ttl, and is refused with NotFound only when no stored lease has the
\* pair; the list it writes keeps every lease of another pair, expired or
\* not (and renew keeps the lease of the pair as well), while the list a
\* granted acquire writes holds no expired lease.
C33_ExpiryOnlyInAcquire ==
    [][ \A p \in Procs :
          /\ (pc[p] = "idle" /\ req'[p].op \in {"renew_lease", "release_lease"}) =>
                LET before == StoredLeases
                    matches(l) == l.lock_id = req'[p].lock_id
                                    /\ l.owner = req'[p].owner
                IN  IF \E i \in DOMAIN before : matches(before[i])
                    THEN /\ pc'[p] = "check"
                         /\ \A i \in DOMAIN before :
                               ~matches(before[i]) =>
                                  before[i] \in Range(wr'[p].data.items)
                         /\ req'[p].op = "renew_lease" =>
                               \E l \in Range(wr'[p].data.items) : matches(l)
                    ELSE pc'[p] = "done" /\ res'[p].outcome = "NotFound"
          /\ (pc[p] = "idle" /\ req'[p].op = "acquire_lease"
                /\ pc'[p] = "check") =>
                \A l \in Range(wr'[p].data.items) : Unexpired(l, now) ]_vars

\* A lease past its ttl has been renewed with success and is still stored,
\* its heartbeat_at a full ttl after its acquired_at.
C33_Witness ==
    \E p \in Procs :
        /\ pc[p] = "done"
        /\ req[p].op = "renew_lease"
        /\ res[p].outcome = "ok"
        /\ \E i \in DOMAIN StoredLeases :
              /\ StoredLeases[i].lock_id = req[p].lock_id
              /\ StoredLeases[i].owner = req[p].owner
              /\ PastTtl(StoredLeases[i], now)
              /\ StoredLeases[i].heartbeat_at =
                    StoredLeases[i].acquired_at + StoredLeases[i].ttl_seconds

\* Some stored lease has the (lock_id, owner) of l in the file as it is
\* after the step
StoredNext(l) ==
    \E k \in Range(read_file(files'["locks"]).data.items) :
        k.lock_id = l.lock_id /\ k.owner = l.owner

\* C34: a step after which an unexpired stored lease is no longer stored
\* is the os.replace of a release that names the lease's own lock_id and
\* owner.
C34_UnexpiredLeaseStays ==
    [][ \A i \in DOMAIN StoredLeases :
          (Unexpired(StoredLeases[i], now) /\ ~StoredNext(StoredLeases[i])) =>
              \E p \in Procs :
                  /\ pc[p] = "replace" /\ pc'[p] = "reread"
                  /\ req[p].op = "release_lease"
                  /\ req[p].lock_id = StoredLeases[i].lock_id
                  /\ req[p].owner = StoredLeases[i].owner ]_vars

\* C35: when no call is under way, every stored task for which the journal
\* has a status_changed event has the status that the rendered log gives
\* as its latest.
C35_RenderedStatusIsStored ==
    (\A p \in Procs : pc[p] \in {"idle", "done"}) =>
        \A i \in DOMAIN StoredTasks :
            RenderedStatus(StoredTasks[i].id) # None =>
                RenderedStatus(StoredTasks[i].id) = StoredTasks[i].status

\* C36: the step in which write_json_atomic returns (its re-read has given
\* the new ETag) ends a write whose os.replace moved to the collection path
\* exactly the bytes json.dumps gave for the document of this call.
C36_InstalledOwnBytes ==
    [][ \A p \in Procs :
          (pc[p] = "reread" /\ pc'[p] = "emit") =>
              /\ "installed" \in DOMAIN wr[p]
              /\ wr[p].installed = json_dumps(wr[p].data) ]_vars

\* The collection whose write an event of the kind records
WrittenBy(kind) ==
    CASE kind \in {"task_created", "task_updated", "status_changed",
                   "task_linked"} -> "tasks"
      [] kind \in {"file_locked", "lease_renewed", "lease_released"} -> "locks"
      [] kind = "agent_updated" -> "agents"
      [] OTHER -> "none"

\* The events of the journal that record writes to the collection, in
\* journal order
WritesTo(path) ==
    LET records(e) == WrittenBy(e.event) = path
    IN  SelectSeq(journal, records)

\* C37: when no call of the service is under way, the events recording
\* writes to a collection form a chain: the first one's prev_etag is the
\* ETag of the empty byte string, each later one's prev_etag is the
\* new_etag of the one before it, and the last one's new_etag is the ETag
\* of the collection file as it is.
C37_TokenChain ==
    pc[SeqProc] \in {"idle", "done"} =>
        \A path \in Paths :
            LET evs == WritesTo(path)
            IN  evs # <<>> =>
                  /\ evs[1].prev_etag = sha256_hex(EmptyBytes)
                  /\ \A i \in 2 .. Len(evs) :
                        evs[i].prev_etag = evs[i - 1].new_etag
                  /\ evs[Len(evs)].new_etag = read_json_with_etag(path).etag

\* Three writes to the task collection are recorded, by events of three
\* kinds whose tokens all differ.
C37_Witness ==
    /\ pc[SeqProc] = "done"
    /\ Len(WritesTo("tasks")) = 3
    /\ WritesTo("tasks")[1].event = "task_created"
    /\ WritesTo("tasks")[2].event = "status_changed"
    /\ WritesTo("tasks")[3].event = "task_linked"
    /\ WritesTo("tasks")[1].new_etag # WritesTo("tasks")[2].new_etag
    /\ WritesTo("tasks")[2].new_etag # WritesTo("tasks")[3].new_etag
    /\ WritesTo("tasks")[1].new_etag # sha256_hex(EmptyBytes)

\* C38: in every state the two front ends' prunes keep the same leases of
\* the stored collection at the present clock reading, and so agree for
\* every path on whether an acquire finds a surviving lease of it; and an
\* acquire that starts is granted or rejected with Conflict, and keeps the
\* leases, as the other front end would have it at that moment.
C38_FrontEndsPruneAlike ==
    [][ /\ Prune(StoredLeases, now) = fresh_locks(StoredLeases, now)
        /\ \A path \in LeasePaths :
              ActiveLeaseOn(Prune(StoredLeases, now), path)
                 <=> ActiveLeaseOn(fresh_locks(StoredLeases, now), path)
        /\ \A p \in Procs :
              (pc[p] = "idle" /\ req'[p].op = "acquire_lease") =>
                 LET other == IF req'[p].fe = "srv"
                              THEN fresh_locks(StoredLeases, now)
                              ELSE Prune(StoredLeases, now)
                 IN  IF ActiveLeaseOn(other, req'[p].path)
                     THEN pc'[p] = "done" /\ res'[p].outcome = "Conflict"
                     ELSE /\ pc'[p] = "check"
                          /\ SubSeq(wr'[p].data.items, 1,
                                    Len(wr'[p].data.items) - 1) = other ]_vars

\* An acquire of the tool has been granted at the instant at which the
\* service's lease on another path is exactly ttl_seconds old: that lease
\* is kept next to the new one.
C38_Witness ==
    \E p \in Procs :
        /\ pc[p] = "done"
        /\ req[p].op = "acquire_lease"
        /\ req[p].fe = "cli"
        /\ res[p].outcome = "ok"
        /\ Len(StoredLeases) = 2
        /\ \E i \in DOMAIN StoredLeases :
              /\ StoredLeases[i].owner # req[p].owner
              /\ req[p].at - StoredLeases[i].acquired_at * TicksPerSecond
                    = StoredLeases[i].ttl_seconds * TicksPerSecond

====
